---- MODULE Spec2Model ----
(***************************************************************************)
(* TuneSleuth: the Library / Track data model (tunesleuth_core/models.py),  *)
(* the pattern detection engine (tunesleuth_core/patterns.py) and the      *)
(* MusicBrainz client (tunesleuth_core/metadata.py).                       *)
(*                                                                         *)
(* Strings are TLA+ strings; a character is a string of length 1.          *)
(* A path is a sequence of segment names; a track's path is its parent     *)
(* folder (absolute, as a sequence of names) plus its file name.           *)
(* A confidence (a Python float count/total) is the exact fraction         *)
(* [num, den]; comparisons cross-multiply.  Time is counted in ticks of a   *)
(* quarter of a second.                                                    *)
(***************************************************************************)
EXTENDS Integers, Sequences, FiniteSets, TLC

VARIABLES
  root_path,   \* Library.root_path
  tracks,      \* Library.tracks, each a Track record
  analysis,    \* the PatternAnalysis returned by the last analyze call (<<>> before any)
  last_call,   \* the operation that produced this state
  _artists,    \* Library._artists: the cached grouping (<<>> for None)
  _albums,     \* Library._albums: the cached grouping (<<>> for None)
  returned,    \* what the last get_artists / get_albums call returned (<<>> before any)
  rate_limiter, \* MusicBrainzClient.rate_limiter: [min_interval, last_call]
  now,         \* the clock time.time() reads
  slept,       \* the time.sleep calls of the last RateLimiter.wait, as a sequence of durations
  args,        \* the arguments of the last client call
  result,      \* what the last client call returned, or the exception it raised
  waits,       \* the number of RateLimiter.wait calls made so far
  queries,     \* the number of queries sent to the remote catalog so far
  threads      \* the threads that call RateLimiter.wait concurrently: where each
               \* is in wait, until when it sleeps and when its last call returned

libvars == <<root_path, tracks, analysis, _artists, _albums, returned>>

clientvars == <<rate_limiter, now, slept, args, result, waits, queries, threads>>

vars == <<libvars, last_call, clientvars>>

-----------------------------------------------------------------------------
(* Strings *)

None == "<None>"

NoneInt == -1

CharAt(s, i) == SubSeq(s, i, i)

Digits == {"0", "1", "2", "3", "4", "5", "6", "7", "8", "9"}

Whitespace == {" ", "\t", "\n", "\r"}

Min(S) == CHOOSE x \in S : \A y \in S : x <= y

Max(S) == CHOOSE x \in S : \A y \in S : x >= y

\* str.strip(): drop leading and trailing whitespace
strip(s) ==
  LET keep == {i \in 1..Len(s) : CharAt(s, i) \notin Whitespace}
  IN  IF keep = {} THEN "" ELSE SubSeq(s, Min(keep), Max(keep))

DigitValue(c) ==
  CASE c = "0" -> 0 [] c = "1" -> 1 [] c = "2" -> 2 [] c = "3" -> 3
    [] c = "4" -> 4 [] c = "5" -> 5 [] c = "6" -> 6 [] c = "7" -> 7
    [] c = "8" -> 8 [] c = "9" -> 9

RECURSIVE ParseInt(_)
ParseInt(s) ==
  IF Len(s) = 0 THEN 0
  ELSE 10 * ParseInt(SubSeq(s, 1, Len(s) - 1)) + DigitValue(CharAt(s, Len(s)))

\* _safe_int: int(value), None on ValueError
safe_int(value) ==
  LET v == strip(value)
  IN  IF Len(v) > 0 /\ \A i \in 1..Len(v) : CharAt(v, i) \in Digits
      THEN ParseInt(v) ELSE NoneInt

\* PurePath.stem: the name up to its last dot, unless that dot is the first
\* or the last character
PathStem(name) ==
  LET dots == {i \in 1..Len(name) : CharAt(name, i) = "."}
  IN  IF dots = {} THEN name
      ELSE IF 1 < Max(dots) /\ Max(dots) < Len(name)
           THEN SubSeq(name, 1, Max(dots) - 1) ELSE name

-----------------------------------------------------------------------------
(* Regular expressions: a pattern is a sequence of quantified character    *)
(* classes, anchored at both ends (^...$); hi = -1 is "no upper bound".    *)

InClass(c, cls) ==
  CASE cls = "digit" -> c \in Digits
    [] cls = "space" -> c \in Whitespace
    [] cls = "sep3"  -> c \in {"-", ".", "_"}
    [] cls = "sep2"  -> c \in {"-", "_"}
    [] cls = "dot"   -> c = "."
    [] cls = "any"   -> c # "\n"

Item(cls, lo, hi, lazy, grp) ==
  [cls |-> cls, lo |-> lo, hi |-> hi, lazy |-> lazy, grp |-> grp]

ReDigits == Item("digit", 1, 3, FALSE, TRUE)     \* (\d{1,3})
ReSpaces == Item("space", 0, -1, FALSE, FALSE)   \* \s*
ReSep3   == Item("sep3", 1, 1, FALSE, FALSE)     \* [-._]
ReSep2   == Item("sep2", 1, 1, FALSE, FALSE)     \* [-_]
ReDot    == Item("dot", 1, 1, FALSE, FALSE)      \* \.
ReLazy   == Item("any", 1, -1, TRUE, TRUE)       \* (.+?)

\* the number of leading characters of s, from pos on, that are in cls
RECURSIVE RunLength(_, _, _)
RunLength(s, pos, cls) ==
  IF pos > Len(s) THEN 0
  ELSE IF InClass(CharAt(s, pos), cls) THEN 1 + RunLength(s, pos + 1, cls)
       ELSE 0

\* $ : the end of the string, or just before a final newline
AtEnd(s, pos) ==
  \/ pos = Len(s) + 1
  \/ pos = Len(s) /\ CharAt(s, pos) = "\n"

NoMatch == [ok |-> FALSE, lens |-> <<>>]

\* The backtracking matcher.  MatchFrom matches items i.. of re against s
\* from pos on; TryCounts tries the repetition counts of item i one after
\* another in the order the engine tries them (a greedy item longest first,
\* a lazy item shortest first) and keeps the first that lets the rest match.
RECURSIVE MatchFrom(_, _, _, _), TryCounts(_, _, _, _, _, _, _)
TryCounts(re, s, i, pos, n, last, step) ==
  LET rest == MatchFrom(re, s, i + 1, pos + n)
  IN  IF rest.ok THEN [ok |-> TRUE, lens |-> <<n>> \o rest.lens]
      ELSE IF n = last THEN NoMatch
      ELSE TryCounts(re, s, i, pos, n + step, last, step)

MatchFrom(re, s, i, pos) ==
  IF i > Len(re)
  THEN IF AtEnd(s, pos) THEN [ok |-> TRUE, lens |-> <<>>] ELSE NoMatch
  ELSE LET it  == re[i]
           run == RunLength(s, pos, it.cls)
           top == IF it.hi = -1 \/ run < it.hi THEN run ELSE it.hi
       IN  IF top < it.lo THEN NoMatch
           ELSE IF it.lazy THEN TryCounts(re, s, i, pos, it.lo, top, 1)
           ELSE TryCounts(re, s, i, pos, top, it.lo, -1)

\* pattern.match(stem)
ReMatch(re, s) == MatchFrom(re, s, 1, 1)

RECURSIVE SumTo(_, _)
SumTo(lens, k) == IF k = 0 THEN 0 ELSE lens[k] + SumTo(lens, k - 1)

\* match.groups(): the text of each capturing item, in order
Groups(re, s) ==
  LET m   == ReMatch(re, s)
      idx == {i \in 1..Len(re) : re[i].grp}
      RECURSIVE Collect(_)
      Collect(i) ==
        IF i > Len(re) THEN <<>>
        ELSE (IF i \in idx
              THEN <<SubSeq(s, SumTo(m.lens, i - 1) + 1, SumTo(m.lens, i))>>
              ELSE <<>>) \o Collect(i + 1)
  IN  Collect(1)

-----------------------------------------------------------------------------
(* PatternDetector.FILENAME_PATTERNS *)

TRACK_ARTIST_TITLE == "TRACK_ARTIST_TITLE"
TRACK_TITLE        == "TRACK_TITLE"
ARTIST_ALBUM_TITLE == "ARTIST_ALBUM_TITLE"
ARTIST_TITLE       == "ARTIST_TITLE"
TITLE_ONLY         == "TITLE_ONLY"

\* the key order of the FILENAME_PATTERNS dict
FilenameTypes ==
  <<TRACK_ARTIST_TITLE, TRACK_TITLE, ARTIST_ALBUM_TITLE, ARTIST_TITLE, TITLE_ONLY>>

FILENAME_PATTERNS(pattern_type) ==
  CASE pattern_type = TRACK_ARTIST_TITLE ->
         << <<ReDigits, ReSpaces, ReSep3, ReSpaces, ReLazy, ReSpaces, ReSep2,
              ReSpaces, ReLazy>>,
            <<ReDigits, ReDot, ReSpaces, ReLazy, ReSpaces, ReSep2, ReSpaces,
              ReLazy>> >>
    [] pattern_type = TRACK_TITLE ->
         << <<ReDigits, ReSpaces, ReSep3, ReSpaces, ReLazy>>,
            <<ReDigits, ReDot, ReSpaces, ReLazy>> >>
    [] pattern_type = ARTIST_ALBUM_TITLE ->
         << <<ReLazy, ReSpaces, ReSep2, ReSpaces, ReLazy, ReSpaces, ReSep2,
              ReSpaces, ReLazy>> >>
    [] pattern_type = ARTIST_TITLE ->
         << <<ReLazy, ReSpaces, ReSep2, ReSpaces, ReLazy>> >>
    [] pattern_type = TITLE_ONLY ->
         << <<ReLazy>> >>
    [] OTHER -> <<>>

\* _matches_filename_pattern
matches_filename_pattern(filename, pattern_type) ==
  \E k \in 1..Len(FILENAME_PATTERNS(pattern_type)) :
     ReMatch(FILENAME_PATTERNS(pattern_type)[k], filename).ok

-----------------------------------------------------------------------------
(* Track and Library (models.py) *)

\* Track(path, filename) with the given tag fields; inferred fields start None
Track(folder, name, title, artist, album) ==
  [folder |-> folder, name |-> name,
   title |-> title, artist |-> artist, album |-> album,
   inferred_artist |-> None, inferred_album |-> None,
   inferred_title |-> None, inferred_track_number |-> NoneInt]

\* track.path.stem
StemOf(track) == PathStem(track.name)

\* Python truthiness of an Optional[str]
Truthy(x) == x # None /\ x # ""

\* a or b
Or(a, b) == IF Truthy(a) THEN a ELSE b

\* display_title preferring the inferred title to the tag
display_title_inferred_first(track) ==
  Or(track.inferred_title, Or(track.title, track.name))

\* Track.display_title
display_title(track) == Or(track.title, Or(track.inferred_title, track.name))

\* Track.display_artist and Track.display_album
display_artist(track) == Or(track.artist, Or(track.inferred_artist, "Unknown Artist"))

display_album(track) == Or(track.album, Or(track.inferred_album, "Unknown Album"))

\* the value grouped under key gets one more track: dict lookup and append
AppendUnder(groups, key, i) ==
  LET k == CHOOSE j \in 1..Len(groups) : groups[j].key = key
  IN  [groups EXCEPT ![k].tracks = Append(@, i)]

HasKey(groups, key) == \E j \in 1..Len(groups) : groups[j].key = key

\* the loop of Library.get_artists over the tracks from position i on: a
\* dict in insertion order, each value an Artist with its name and tracks
\* (a track is named by its position in Library.tracks)
RECURSIVE GroupArtists(_, _, _)
GroupArtists(trks, i, groups) ==
  IF i > Len(trks) THEN groups
  ELSE LET artist_name == display_artist(trks[i])
           slot == IF HasKey(groups, artist_name) THEN groups
                   ELSE Append(groups, [key |-> artist_name, name |-> artist_name,
                                        tracks |-> <<>>])
       IN  GroupArtists(trks, i + 1, AppendUnder(slot, artist_name, i))

\* the loop of Library.get_albums: the key is "artist|album", each value an
\* Album with name, artist, folder_path and tracks (its year is not modelled)
RECURSIVE GroupAlbums(_, _, _)
GroupAlbums(trks, i, groups) ==
  IF i > Len(trks) THEN groups
  ELSE LET album_name == display_album(trks[i])
           artist_name == display_artist(trks[i])
           key == artist_name \o "|" \o album_name
           slot == IF HasKey(groups, key) THEN groups
                   ELSE Append(groups, [key |-> key, name |-> album_name,
                                        artist |-> artist_name,
                                        folder_path |-> trks[i].folder,
                                        tracks |-> <<>>])
       IN  GroupAlbums(trks, i + 1, AppendUnder(slot, key, i))

\* Library.get_folders: the distinct parent folders, in first-occurrence
\* order, and the positions of the tracks of each
FolderKeys(trks) ==
  LET first == {i \in 1..Len(trks) :
                  \A j \in 1..(i - 1) : trks[j].folder # trks[i].folder}
      RECURSIVE Keys(_)
      Keys(positions) ==
        IF positions = {} THEN <<>>
        ELSE <<trks[Min(positions)].folder>> \o Keys(positions \ {Min(positions)})
  IN  Keys(first)

FolderTracks(trks, folder) == {i \in 1..Len(trks) : trks[i].folder = folder}

SeqRange(q) == {q[k] : k \in 1..Len(q)}

\* folder.relative_to(root) raises ValueError unless root is a prefix
IsUnder(folder, root) ==
  Len(root) <= Len(folder) /\ SubSeq(folder, 1, Len(root)) = root

\* folder.relative_to(root).parts
RelativeParts(folder, root) == SubSeq(folder, Len(root) + 1, Len(folder))

\* Path.name: the last segment ("" for the filesystem root)
FolderName(folder) == IF Len(folder) = 0 THEN "" ELSE folder[Len(folder)]

-----------------------------------------------------------------------------
(* PatternMatch and PatternAnalysis.  A PatternMatch keeps pattern_type,   *)
(* confidence, matching_tracks and total_tracks; its description,          *)
(* explanation and examples are display text that no decision reads.       *)

Frac(n, d) == [num |-> n, den |-> d]

\* a >= b, a > b and a = b on confidences (denominators are positive)
Geq(a, b) == a.num * b.den >= b.num * a.den
Gt(a, b) == a.num * b.den > b.num * a.den
EqConf(a, b) == a.num * b.den = b.num * a.den

PatternMatch(pattern_type, confidence, matching, total) ==
  [pattern_type |-> pattern_type, confidence |-> confidence,
   matching_tracks |-> matching, total_tracks |-> total]

\* sorted(matches, key=lambda m: m.confidence, reverse=True): a stable sort,
\* entries of equal confidence keep their order
RECURSIVE InsertDesc(_, _)
InsertDesc(sorted, m) ==
  IF sorted = <<>> THEN <<m>>
  ELSE IF Geq(Head(sorted).confidence, m.confidence)
       THEN <<Head(sorted)>> \o InsertDesc(Tail(sorted), m)
       ELSE <<m>> \o sorted

\* no sort: the entries in the order they were appended
Unsorted(matches) == matches

RECURSIVE SortedDesc(_)
SortedDesc(matches) ==
  IF matches = <<>> THEN <<>>
  ELSE InsertDesc(SortedDesc(SubSeq(matches, 1, Len(matches) - 1)),
                  matches[Len(matches)])

\* max taking the last entry of maximal confidence
LastMax(patterns) ==
  IF patterns = <<>> THEN <<>>
  ELSE LET best == Max({k \in 1..Len(patterns) :
                          \A j \in 1..Len(patterns) :
                             Geq(patterns[k].confidence, patterns[j].confidence)})
       IN  <<patterns[best]>>

\* max(patterns, key=lambda p: p.confidence): the first entry of maximal
\* confidence; <<>> stands for None
FirstMax(patterns) ==
  IF patterns = <<>> THEN <<>>
  ELSE LET best == Min({k \in 1..Len(patterns) :
                          \A j \in 1..Len(patterns) :
                             Geq(patterns[k].confidence, patterns[j].confidence)})
       IN  <<patterns[best]>>

primary_filename_pattern(a) == FirstMax(a.filename_patterns)

primary_folder_pattern(a) == FirstMax(a.folder_patterns)

all_patterns(a) ==
  SortedDesc(a.filename_patterns \o a.folder_patterns \o a.special_patterns)

-----------------------------------------------------------------------------
(* PatternDetector._detect_filename_patterns *)

MinConfidence == Frac(1, 10)

MinCount == 5

\* ClassifyOrder with the generic forms tried before the numbered ones
ClassifyOrderGenericFirst ==
  <<ARTIST_ALBUM_TITLE, ARTIST_TITLE, TRACK_ARTIST_TITLE, TRACK_TITLE, TITLE_ONLY>>

\* the order the types are tried in for one stem
ClassifyOrder ==
  <<TRACK_ARTIST_TITLE, TRACK_TITLE, ARTIST_ALBUM_TITLE, ARTIST_TITLE, TITLE_ONLY>>

\* CountedUnder without the break: a stem counted under every matching type
CountedUnderEveryMatch(stem) ==
  {ClassifyOrder[k] : k \in {j \in 1..Len(ClassifyOrder) :
                               matches_filename_pattern(stem, ClassifyOrder[j])}}

\* the types under which one stem is counted: the first that matches, then
\* break
CountedUnder(stem) ==
  LET hit == {k \in 1..Len(ClassifyOrder) :
                matches_filename_pattern(stem, ClassifyOrder[k])}
  IN  IF hit = {} THEN {} ELSE {ClassifyOrder[Min(hit)]}

\* Significant with both conditions required
SignificantBoth(count, total) ==
  Geq(Frac(count, total), MinConfidence) /\ count >= MinCount

\* whether a type with count of total tracks is reported
Significant(count, total) ==
  Geq(Frac(count, total), MinConfidence) \/ count >= MinCount

\* the loop over library.tracks: for each track the types it is counted under
RECURSIVE CountAll(_, _)
CountAll(trks, i) ==
  IF i = 0 THEN <<>>
  ELSE Append(CountAll(trks, i - 1), CountedUnder(StemOf(trks[i])))

detect_filename_patterns(trks) ==
  LET total == Len(trks)
      counted == CountAll(trks, total)
      pattern_counts(pt) == Cardinality({i \in 1..total : pt \in counted[i]})
      RECURSIVE Emit(_)
      Emit(k) ==
        IF k > Len(FilenameTypes) THEN <<>>
        ELSE LET pt == FilenameTypes[k]
                 count == pattern_counts(pt)
             IN  (IF count > 0 /\ Significant(count, total)
                  THEN <<PatternMatch(pt, Frac(count, total), count, total)>>
                  ELSE <<>>) \o Emit(k + 1)
  IN  SortedDesc(Emit(1))

-----------------------------------------------------------------------------
(* PatternDetector._detect_folder_patterns *)

FOLDER_ARTIST_ALBUM      == "FOLDER_ARTIST_ALBUM"
FOLDER_ARTIST_ALBUM_DISC == "FOLDER_ARTIST_ALBUM_DISC"
FOLDER_ALBUM_ONLY        == "FOLDER_ALBUM_ONLY"
FOLDER_FLAT              == "FOLDER_FLAT"

UpperCase == "ABCDEFGHIJKLMNOPQRSTUVWXYZ"
LowerCase == "abcdefghijklmnopqrstuvwxyz"

\* str.lower(), on the ASCII letters
LowerChar(c) ==
  LET at == {k \in 1..Len(UpperCase) : CharAt(UpperCase, k) = c}
  IN  IF at = {} THEN c ELSE CharAt(LowerCase, Min(at))

RECURSIVE lower(_)
lower(s) ==
  IF Len(s) = 0 THEN ""
  ELSE LowerChar(CharAt(s, 1)) \o lower(SubSeq(s, 2, Len(s)))

\* sub in s
Contains(s, sub) ==
  \E p \in 1..(Len(s) - Len(sub) + 1) : SubSeq(s, p, p + Len(sub) - 1) = sub

\* a run of at least lo characters of cls starts at pos
HasRun(s, pos, cls, lo) == RunLength(s, pos, cls) >= lo

\* DISC_PATTERN.search(name): (?:disc|cd|disk)\s*(\d+), ignoring case
DISC_PATTERN(name) ==
  \E word \in {"disc", "cd", "disk"} :
    \E p \in 1..Len(name) :
       /\ p + Len(word) - 1 <= Len(name)
       /\ lower(SubSeq(name, p, p + Len(word) - 1)) = word
       /\ LET q == p + Len(word)
          IN  HasRun(name, q + RunLength(name, q, "space"), "digit", 1)

\* the folders under the root at the given depth, in get_folders order
FoldersAtDepth(folders, root, depth) ==
  SelectSeq(folders,
            LAMBDA f : IsUnder(f, root) /\ Len(RelativeParts(f, root)) = depth)

\* sum(len(folders[f]) for f in fs)
RECURSIVE TracksInFolders(_, _)
TracksInFolders(trks, fs) ==
  IF fs = <<>> THEN 0
  ELSE Cardinality(FolderTracks(trks, Head(fs))) + TracksInFolders(trks, Tail(fs))

Half == Frac(1, 2)

\* CheckArtistAlbum with a strict threshold
CheckArtistAlbumStrict(trks, folders, root) ==
  LET depth2_folders == FoldersAtDepth(folders, root, 2)
      depth2_tracks == TracksInFolders(trks, depth2_folders)
      confidence == Frac(depth2_tracks, Len(trks))
  IN  IF depth2_folders # <<>> /\ Gt(confidence, Half)
      THEN <<PatternMatch(FOLDER_ARTIST_ALBUM, confidence, depth2_tracks, Len(trks))>>
      ELSE <<>>

\* depth 2: Artist / Album
CheckArtistAlbum(trks, folders, root) ==
  LET depth2_folders == FoldersAtDepth(folders, root, 2)
      depth2_tracks == TracksInFolders(trks, depth2_folders)
      confidence == Frac(depth2_tracks, Len(trks))
  IN  IF depth2_folders # <<>> /\ Geq(confidence, Half)
      THEN <<PatternMatch(FOLDER_ARTIST_ALBUM, confidence, depth2_tracks, Len(trks))>>
      ELSE <<>>

\* CheckDisc with the threshold of the other two checks
CheckDiscHalf(trks, folders, root) ==
  LET depth3_folders == FoldersAtDepth(folders, root, 3)
      disc_folders == SelectSeq(depth3_folders,
                                LAMBDA f : DISC_PATTERN(FolderName(f)))
      disc_tracks == TracksInFolders(trks, disc_folders)
      confidence == Frac(disc_tracks, Len(trks))
  IN  IF disc_folders # <<>> /\ Geq(confidence, Half)
      THEN <<PatternMatch(FOLDER_ARTIST_ALBUM_DISC, confidence, disc_tracks, Len(trks))>>
      ELSE <<>>

\* depth 3, disc folders: Artist / Album / Disc
CheckDisc(trks, folders, root) ==
  LET depth3_folders == FoldersAtDepth(folders, root, 3)
      disc_folders == SelectSeq(depth3_folders,
                                LAMBDA f : DISC_PATTERN(FolderName(f)))
      disc_tracks == TracksInFolders(trks, disc_folders)
      confidence == Frac(disc_tracks, Len(trks))
  IN  IF disc_folders # <<>> /\ Geq(confidence, MinConfidence)
      THEN <<PatternMatch(FOLDER_ARTIST_ALBUM_DISC, confidence, disc_tracks, Len(trks))>>
      ELSE <<>>

\* depth 1, more than one folder: Album only
CheckAlbumOnly(trks, folders, root) ==
  LET depth1_folders == FoldersAtDepth(folders, root, 1)
      depth1_tracks == TracksInFolders(trks, depth1_folders)
      confidence == Frac(depth1_tracks, Len(trks))
  IN  IF Len(depth1_folders) > 1 /\ Geq(confidence, Half)
      THEN <<PatternMatch(FOLDER_ALBUM_ONLY, confidence, depth1_tracks, Len(trks))>>
      ELSE <<>>

\* the flat structure: all tracks in one folder
FlatMatch(trks) ==
  <<PatternMatch(FOLDER_FLAT, Frac(1, 1), Len(trks), Len(trks))>>

\* detect_folder_patterns without the single-folder case
detect_folder_patterns_no_flat(trks, root) ==
  LET folders == FolderKeys(trks)
  IN  IF Len(folders) = 0 THEN <<>>
      ELSE SortedDesc(CheckArtistAlbum(trks, folders, root)
                      \o CheckDisc(trks, folders, root)
                      \o CheckAlbumOnly(trks, folders, root))

detect_folder_patterns(trks, root) ==
  LET folders == FolderKeys(trks)
  IN  IF Len(folders) = 0 THEN <<>>
      ELSE IF Len(folders) = 1 THEN FlatMatch(trks)
      ELSE SortedDesc(CheckArtistAlbum(trks, folders, root)
                      \o CheckDisc(trks, folders, root)
                      \o CheckAlbumOnly(trks, folders, root))

-----------------------------------------------------------------------------
(* PatternDetector._detect_special_patterns *)

COMPILATION     == "COMPILATION"
NUMBERED_PREFIX == "NUMBERED_PREFIX"
YEAR_IN_FOLDER  == "YEAR_IN_FOLDER"

\* re.match(r"^\d{1,3}\s*[-._]", stem): a prefix match, between 1 and 3
\* digits, then whitespace, then a separator
NumberedPrefix(stem) ==
  \E d \in 1..3 :
     /\ RunLength(stem, 1, "digit") >= d
     /\ HasRun(stem, d + 1 + RunLength(stem, d + 1, "space"), "sep3", 1)

\* FOLDER_YEAR_PATTERN.search(name): [\(\[]\s*(\d{4})\s*[\)\]]
FOLDER_YEAR_PATTERN(name) ==
  \E p \in 1..Len(name) :
     /\ CharAt(name, p) \in {"(", "["}
     /\ LET d == p + 1 + RunLength(name, p + 1, "space")
            c == d + 4 + RunLength(name, d + 4, "space")
        IN  /\ RunLength(name, d, "digit") >= 4
            /\ c <= Len(name)
            /\ CharAt(name, c) \in {")", "]"}

va_indicators == {"various artists", "va ", "compilation", "soundtrack", "ost"}

\* a folder whose name contains a variety indicator
NamedCompilation(folder) ==
  LET folder_lower == lower(FolderName(folder))
  IN  \E ind \in va_indicators : Contains(folder_lower, ind)

\* a folder of at least 5 tracks whose distinct known artists number at
\* least 70% of its tracks
DiverseFolder(trks, folder) ==
  LET members == FolderTracks(trks, folder)
      artists == {Or(trks[i].artist, trks[i].inferred_artist) :
                    i \in {j \in members :
                             Truthy(trks[j].artist) \/ Truthy(trks[j].inferred_artist)}}
  IN  /\ Cardinality(members) >= 5
      /\ 10 * Cardinality(artists) >= 7 * Cardinality(members)

\* CheckNumbered with a strict threshold
CheckNumberedStrict(trks) ==
  LET numbered == Cardinality({i \in 1..Len(trks) : NumberedPrefix(StemOf(trks[i]))})
      confidence == Frac(numbered, Len(trks))
  IN  IF numbered > 0 /\ Gt(confidence, Frac(1, 4))
      THEN <<PatternMatch(NUMBERED_PREFIX, confidence, numbered, Len(trks))>>
      ELSE <<>>

CheckNumbered(trks) ==
  LET numbered == Cardinality({i \in 1..Len(trks) : NumberedPrefix(StemOf(trks[i]))})
      confidence == Frac(numbered, Len(trks))
  IN  IF numbered > 0 /\ Geq(confidence, Frac(1, 4))
      THEN <<PatternMatch(NUMBERED_PREFIX, confidence, numbered, Len(trks))>>
      ELSE <<>>

CheckYear(trks, folders) ==
  LET folders_with_year ==
        SelectSeq(folders, LAMBDA f : FOLDER_YEAR_PATTERN(FolderName(f)))
      year_tracks == TracksInFolders(trks, folders_with_year)
      confidence == Frac(year_tracks, Len(trks))
  IN  IF folders_with_year # <<>> /\ Geq(confidence, MinConfidence)
      THEN <<PatternMatch(YEAR_IN_FOLDER, confidence, year_tracks, Len(trks))>>
      ELSE <<>>

\* CheckCompilation appending a folder once for each heuristic it meets
CheckCompilationTwice(trks, folders) ==
  LET compilation_folders ==
        SelectSeq(folders, NamedCompilation)
          \o SelectSeq(folders, LAMBDA f : DiverseFolder(trks, f))
      comp_tracks == TracksInFolders(trks, compilation_folders)
      confidence == IF comp_tracks > Len(trks) THEN Frac(1, 1)
                    ELSE Frac(comp_tracks, Len(trks))
  IN  IF compilation_folders # <<>> /\ Geq(confidence, Frac(1, 20))
      THEN <<PatternMatch(COMPILATION, confidence, comp_tracks, Len(trks))>>
      ELSE <<>>

CheckCompilation(trks, folders) ==
  LET compilation_folders ==
        SelectSeq(folders,
                  LAMBDA f : NamedCompilation(f) \/ DiverseFolder(trks, f))
      comp_tracks == TracksInFolders(trks, compilation_folders)
      \* min(comp_tracks / total_tracks, 1.0)
      confidence == IF comp_tracks > Len(trks) THEN Frac(1, 1)
                    ELSE Frac(comp_tracks, Len(trks))
  IN  IF compilation_folders # <<>> /\ Geq(confidence, Frac(1, 20))
      THEN <<PatternMatch(COMPILATION, confidence, comp_tracks, Len(trks))>>
      ELSE <<>>

detect_special_patterns(trks) ==
  LET folders == FolderKeys(trks)
  IN  SortedDesc(CheckNumbered(trks) \o CheckYear(trks, folders)
                 \o CheckCompilation(trks, folders))

-----------------------------------------------------------------------------
(* PatternDetector._apply_inferences and _infer_from_folder *)

\* _infer_from_folder assigning the folder names without the "or"
infer_from_folder_overwrite(track, root) ==
  IF ~IsUnder(track.folder, root) THEN track
  ELSE LET parts == RelativeParts(track.folder, root)
       IN  IF Len(parts) >= 2
           THEN [track EXCEPT !.inferred_artist = parts[1],
                              !.inferred_album = parts[2]]
           ELSE IF Len(parts) = 1
           THEN [track EXCEPT !.inferred_album = parts[1]]
           ELSE track

\* _infer_from_folder with the two fields of the "or" crossed
infer_from_folder_crossed(track, root) ==
  IF ~IsUnder(track.folder, root) THEN track
  ELSE LET parts == RelativeParts(track.folder, root)
       IN  IF Len(parts) >= 2
           THEN [track EXCEPT !.inferred_artist = Or(track.inferred_album, parts[1]),
                              !.inferred_album = Or(track.inferred_artist, parts[2])]
           ELSE IF Len(parts) = 1
           THEN [track EXCEPT !.inferred_album = Or(track.inferred_album, parts[1])]
           ELSE track

\* _infer_from_folder: fill artist / album from the folder below the root
infer_from_folder(track, root) ==
  IF ~IsUnder(track.folder, root) THEN track
  ELSE LET parts == RelativeParts(track.folder, root)
       IN  IF Len(parts) >= 2
           THEN [track EXCEPT !.inferred_artist = Or(track.inferred_artist, parts[1]),
                              !.inferred_album = Or(track.inferred_album, parts[2])]
           ELSE IF Len(parts) = 1
           THEN [track EXCEPT !.inferred_album = Or(track.inferred_album, parts[1])]
           ELSE track

\* SetInferred with artist and title of ARTIST_TITLE taken from the wrong groups
SetInferredSwapped(track, pattern_type, groups, root) ==
  IF pattern_type = TRACK_ARTIST_TITLE /\ Len(groups) >= 3
  THEN [track EXCEPT !.inferred_track_number = safe_int(groups[1]),
                     !.inferred_artist = strip(groups[2]),
                     !.inferred_title = strip(groups[3])]
  ELSE IF pattern_type = TRACK_TITLE /\ Len(groups) >= 2
  THEN infer_from_folder(
         [track EXCEPT !.inferred_track_number = safe_int(groups[1]),
                       !.inferred_title = strip(groups[2])], root)
  ELSE IF pattern_type = ARTIST_ALBUM_TITLE /\ Len(groups) >= 3
  THEN [track EXCEPT !.inferred_artist = strip(groups[1]),
                     !.inferred_album = strip(groups[2]),
                     !.inferred_title = strip(groups[3])]
  ELSE IF pattern_type = ARTIST_TITLE /\ Len(groups) >= 2
  THEN [track EXCEPT !.inferred_artist = strip(groups[2]),
                     !.inferred_title = strip(groups[1])]
  ELSE IF pattern_type = TITLE_ONLY /\ Len(groups) >= 1
  THEN infer_from_folder([track EXCEPT !.inferred_title = strip(groups[1])], root)
  ELSE track

\* the assignments made for one track from the groups of the matching regex
SetInferred(track, pattern_type, groups, root) ==
  IF pattern_type = TRACK_ARTIST_TITLE /\ Len(groups) >= 3
  THEN [track EXCEPT !.inferred_track_number = safe_int(groups[1]),
                     !.inferred_artist = strip(groups[2]),
                     !.inferred_title = strip(groups[3])]
  ELSE IF pattern_type = TRACK_TITLE /\ Len(groups) >= 2
  THEN infer_from_folder(
         [track EXCEPT !.inferred_track_number = safe_int(groups[1]),
                       !.inferred_title = strip(groups[2])], root)
  ELSE IF pattern_type = ARTIST_ALBUM_TITLE /\ Len(groups) >= 3
  THEN [track EXCEPT !.inferred_artist = strip(groups[1]),
                     !.inferred_album = strip(groups[2]),
                     !.inferred_title = strip(groups[3])]
  ELSE IF pattern_type = ARTIST_TITLE /\ Len(groups) >= 2
  THEN [track EXCEPT !.inferred_artist = strip(groups[1]),
                     !.inferred_title = strip(groups[2])]
  ELSE IF pattern_type = TITLE_ONLY /\ Len(groups) >= 1
  THEN infer_from_folder([track EXCEPT !.inferred_title = strip(groups[1])], root)
  ELSE track

\* InferTrack writing the title it found into the tag field as well
InferTrackIntoTags(track, pattern_type, root) ==
  LET patterns == FILENAME_PATTERNS(pattern_type)
      hit == {k \in 1..Len(patterns) : ReMatch(patterns[k], StemOf(track)).ok}
      t == IF hit = {} THEN track
           ELSE SetInferred(track, pattern_type,
                            Groups(patterns[Min(hit)], StemOf(track)), root)
  IN  [t EXCEPT !.title = Or(t.title, t.inferred_title)]

\* one track of the loop: the first regex of the type that matches the stem
InferTrack(track, pattern_type, root) ==
  LET patterns == FILENAME_PATTERNS(pattern_type)
      hit == {k \in 1..Len(patterns) : ReMatch(patterns[k], StemOf(track)).ok}
  IN  IF hit = {} THEN track
      ELSE SetInferred(track, pattern_type,
                       Groups(patterns[Min(hit)], StemOf(track)), root)

apply_inferences(trks, root, a) ==
  LET primary_pattern == primary_filename_pattern(a)
  IN  IF primary_pattern = <<>> THEN trks
      ELSE [i \in 1..Len(trks) |->
              InferTrack(trks[i], primary_pattern[1].pattern_type, root)]

-----------------------------------------------------------------------------
(* MusicBrainzClient._fuzzy_match and _calculate_confidence (metadata.py). *)
(* A score (a Python float) is the exact fraction [num, den].              *)

\* the length of the common run of a from i and b from j, inside a[..ahi-1]
\* and b[..bhi-1]
RECURSIVE RunFrom(_, _, _, _, _, _)
RunFrom(a, b, i, j, ahi, bhi) ==
  IF i < ahi /\ j < bhi /\ CharAt(a, i) = CharAt(b, j)
  THEN 1 + RunFrom(a, b, i + 1, j + 1, ahi, bhi)
  ELSE 0

\* SequenceMatcher.find_longest_match(alo, ahi, blo, bhi): the longest block
\* a[i:i+size] = b[j:j+size]; of the longest, the one that starts earliest
\* in a, and of those the one that starts earliest in b
find_longest_match(a, b, alo, ahi, blo, bhi) ==
  LET starts == (alo..(ahi - 1)) \X (blo..(bhi - 1))
      sizes == [p \in starts |-> RunFrom(a, b, p[1], p[2], ahi, bhi)]
      bestsize == Max({0} \cup {sizes[p] : p \in starts})
      besti == Min({p[1] : p \in {q \in starts : sizes[q] = bestsize}})
      bestj == Min({p[2] : p \in {q \in starts : q[1] = besti /\ sizes[q] = bestsize}})
  IN  IF bestsize = 0 THEN [i |-> alo, j |-> blo, size |-> 0]
      ELSE [i |-> besti, j |-> bestj, size |-> bestsize]

\* SequenceMatcher.get_matching_blocks: the total size of the longest block
\* and of the blocks found, the same way, to its left and to its right
RECURSIVE MatchedTotal(_, _, _, _, _, _)
MatchedTotal(a, b, alo, ahi, blo, bhi) ==
  IF alo >= ahi \/ blo >= bhi THEN 0
  ELSE LET m == find_longest_match(a, b, alo, ahi, blo, bhi)
       IN  IF m.size = 0 THEN 0
           ELSE m.size + MatchedTotal(a, b, alo, m.i, blo, m.j)
                       + MatchedTotal(a, b, m.i + m.size, ahi, m.j + m.size, bhi)

\* SequenceMatcher(None, a, b).ratio(): 2 * matches / (len(a) + len(b)), and
\* 1.0 for two empty sequences
SequenceMatcherRatio(a, b) ==
  IF Len(a) + Len(b) = 0 THEN Frac(1, 1)
  ELSE Frac(2 * MatchedTotal(a, b, 1, Len(a) + 1, 1, Len(b) + 1), Len(a) + Len(b))

\* MusicBrainzClient._fuzzy_match
fuzzy_match(str1, str2) ==
  IF ~Truthy(str1) \/ ~Truthy(str2) THEN Frac(0, 1)
  ELSE SequenceMatcherRatio(strip(lower(str1)), strip(lower(str2)))

\* the weights 2.0, 1.5, 1.0 of title, artist and album, in halves
WEIGHTS == <<4, 3, 2>>

\* score * weight
Weighted(score, weight) == Frac(score.num * weight, score.den)

FracAdd(a, b) == Frac(a.num * b.den + b.num * a.den, a.den * b.den)

\* sum(scores)
RECURSIVE SumScores(_)
SumScores(scores) ==
  IF scores = <<>> THEN Frac(0, 1)
  ELSE FracAdd(Head(scores), SumScores(Tail(scores)))

\* sum(weights)
RECURSIVE SumWeights(_)
SumWeights(weights) ==
  IF weights = <<>> THEN 0 ELSE Head(weights) + SumWeights(Tail(weights))

\* MusicBrainzClient._calculate_confidence
calculate_confidence(result_title, result_artist, result_album, search_title, search_artist, search_album) ==
  LET scores ==
        <<Weighted(fuzzy_match(result_title, search_title), WEIGHTS[1])>>
        \o (IF Truthy(search_artist)
            THEN <<Weighted(fuzzy_match(result_artist, search_artist), WEIGHTS[2])>>
            ELSE <<>>)
        \o (IF Truthy(search_album)
            THEN <<Weighted(fuzzy_match(result_album, search_album), WEIGHTS[3])>>
            ELSE <<>>)
      total == SumScores(scores)
      confidence == Frac(total.num, total.den * SumWeights(SubSeq(WEIGHTS, 1, Len(scores))))
  IN  IF Gt(confidence, Frac(1, 1)) THEN Frac(1, 1) ELSE confidence

-----------------------------------------------------------------------------
(* The response of the remote catalog and MusicBrainzClient._parse_recording *)
(* A Python value of the response carries its type: a str, an int, None, a   *)
(* list (a sequence of values) or a dict (a sequence of entries).            *)

Str(s) == [t |-> "str", s |-> s, n |-> 0, q |-> <<>>, d |-> <<>>]

IntValue(n) == [t |-> "int", s |-> "", n |-> n, q |-> <<>>, d |-> <<>>]

NoneValue == [t |-> "NoneType", s |-> "", n |-> 0, q |-> <<>>, d |-> <<>>]

List(q) == [t |-> "list", s |-> "", n |-> 0, q |-> q, d |-> <<>>]

\* a dict is the sequence of its <<key, value>> entries, in insertion order
Dict(d) == [t |-> "dict", s |-> "", n |-> 0, q |-> <<>>, d |-> d]

\* the keys of a dict
KeysOf(x) == {x.d[k][1] : k \in 1..Len(x.d)}

\* x[key], for a key of the dict x
GetItem(x, key) == x.d[CHOOSE k \in 1..Len(x.d) : x.d[k][1] = key][2]

\* bool(x)
TruthyValue(x) ==
  CASE x.t = "str" -> x.s # ""
    [] x.t = "int" -> x.n # 0
    [] x.t = "NoneType" -> FALSE
    [] x.t = "list" -> x.q # <<>>
    [] x.t = "dict" -> x.d # <<>>

\* the outcome of an expression: a value, or the exception it raises
Value(x) == [exc |-> "", value |-> x]

Raise(e) == [exc |-> e, value |-> NoneValue]

\* d.get(key, default): only a dict has the method
Get(d, key, default) ==
  IF d.t # "dict" THEN Raise("AttributeError")
  ELSE IF key \in KeysOf(d) THEN Value(GetItem(d, key)) ELSE Value(default)

\* x[0], for x that is true
Index0(x) ==
  CASE x.t = "list" -> Value(x.q[1])
    [] x.t = "str" -> Value(Str(CharAt(x.s, 1)))
    [] x.t = "dict" -> Raise("KeyError")
    [] OTHER -> Raise("TypeError")

\* key in x
In(key, x) ==
  CASE x.t = "dict" -> Value(key \in KeysOf(x))
    [] x.t = "list" -> Value(\E k \in 1..Len(x.q) : x.q[k].t = "str" /\ x.q[k].s = key)
    [] x.t = "str" -> Value(Contains(x.s, key))
    [] OTHER -> Raise("TypeError")

RECURSIVE WithoutUnderscores(_)
WithoutUnderscores(s) ==
  IF Len(s) = 0 THEN ""
  ELSE (IF CharAt(s, 1) = "_" THEN "" ELSE CharAt(s, 1))
         \o WithoutUnderscores(SubSeq(s, 2, Len(s)))

\* int(s) of a str: surrounding whitespace, a sign, digits with single
\* underscores between them; ValueError otherwise
IntOfStr(s) ==
  LET body == strip(s)
      signed == Len(body) >= 1 /\ CharAt(body, 1) \in {"+", "-"}
      digits == IF signed THEN SubSeq(body, 2, Len(body)) ELSE body
      wellformed ==
        /\ Len(digits) >= 1
        /\ \A k \in 1..Len(digits) : CharAt(digits, k) \in Digits \cup {"_"}
        /\ CharAt(digits, 1) # "_" /\ CharAt(digits, Len(digits)) # "_"
        /\ \A k \in 1..(Len(digits) - 1) :
              ~(CharAt(digits, k) = "_" /\ CharAt(digits, k + 1) = "_")
      magnitude == ParseInt(WithoutUnderscores(digits))
  IN  IF ~wellformed THEN Raise("ValueError")
      ELSE Value(IntValue(IF signed /\ CharAt(body, 1) = "-"
                          THEN 0 - magnitude ELSE magnitude))

\* int(x)
IntOf(x) ==
  CASE x.t = "str" -> IntOfStr(x.s)
    [] x.t = "int" -> Value(x)
    [] OTHER -> Raise("TypeError")

\* an Optional[int]: <<>> for None
NoInt == <<>>

\* len(x)
LenOf(x) ==
  CASE x.t = "str" -> Value(IntValue(Len(x.s)))
    [] x.t = "list" -> Value(IntValue(Len(x.q)))
    [] x.t = "dict" -> Value(IntValue(Len(x.d)))
    [] OTHER -> Raise("TypeError")

\* a local variable of the code: F of the value x, evaluated once
Bind(x, F(_)) == CHOOSE y \in {F(v) : v \in {x}} : TRUE

\* the artist of a recording: the first artist credit, if it is a dict with
\* an "artist" entry
ArtistOf(recording) ==
  LET none == [exc |-> "", artist |-> Str(""), artist_id |-> NoneValue]
  IN  IF "artist-credit" \notin KeysOf(recording) THEN none
      ELSE Bind(GetItem(recording, "artist-credit"), LAMBDA artist_credit :
        IF ~(artist_credit.t = "list" /\ artist_credit.q # <<>>) THEN none
        ELSE Bind(artist_credit.q[1], LAMBDA first_artist :
          IF ~(first_artist.t = "dict" /\ "artist" \in KeysOf(first_artist)) THEN none
          ELSE Bind(GetItem(first_artist, "artist"), LAMBDA credited :
            Bind(Get(credited, "name", Str("")), LAMBDA name :
              IF name.exc # "" THEN [none EXCEPT !.exc = name.exc]
              ELSE [exc |-> "", artist |-> name.value,
                    artist_id |-> Get(credited, "id", NoneValue).value]))))

\* the year of a release: int of the first four characters of its date
YearOf(first_release) ==
  LET none == [exc |-> "", year |-> NoInt]
  IN  IF "date" \notin KeysOf(first_release) THEN none
      ELSE Bind(GetItem(first_release, "date"), LAMBDA date_str :
        IF ~TruthyValue(date_str) THEN none
        ELSE Bind(LenOf(date_str), LAMBDA length :
          IF length.exc # "" THEN [none EXCEPT !.exc = length.exc]
          ELSE IF length.value.n < 4 THEN none
          ELSE Bind(IF date_str.t = "str" THEN IntOfStr(SubSeq(date_str.s, 1, 4))
                    ELSE Raise("TypeError"), LAMBDA year :
            IF year.exc = "ValueError" THEN none
            ELSE IF year.exc # "" THEN [none EXCEPT !.exc = year.exc]
            ELSE [exc |-> "", year |-> <<year.value.n>>])))

\* the track number of a release: int of the number of the first track of
\* its first medium
TrackNumberOf(first_release) ==
  LET none == [exc |-> "", track_number |-> NoInt]
  IN  IF "medium-list" \notin KeysOf(first_release) THEN none
      ELSE Bind(GetItem(first_release, "medium-list"), LAMBDA mediums :
        IF ~TruthyValue(mediums) THEN none
        ELSE Bind(Index0(mediums), LAMBDA medium :
          IF medium.exc # "" THEN [none EXCEPT !.exc = medium.exc]
          ELSE Bind(In("track-list", medium.value), LAMBDA listed :
            IF listed.exc # "" THEN [none EXCEPT !.exc = listed.exc]
            ELSE IF ~listed.value THEN none
            ELSE Bind(IF medium.value.t = "dict"
                      THEN Value(GetItem(medium.value, "track-list"))
                      ELSE Raise("TypeError"), LAMBDA tracks_ :
              IF tracks_.exc # "" THEN [none EXCEPT !.exc = tracks_.exc]
              ELSE IF ~TruthyValue(tracks_.value) THEN none
              ELSE Bind(Index0(tracks_.value), LAMBDA track :
                IF track.exc # "" THEN [none EXCEPT !.exc = track.exc]
                ELSE Bind(Get(track.value, "number", Str("")), LAMBDA track_num_str :
                  IF track_num_str.exc # ""
                  THEN [none EXCEPT !.exc = track_num_str.exc]
                  ELSE IF ~TruthyValue(track_num_str.value) THEN none
                  ELSE Bind(IntOf(track_num_str.value), LAMBDA number :
                    IF number.exc = "ValueError" THEN none
                    ELSE IF number.exc # "" THEN [none EXCEPT !.exc = number.exc]
                    ELSE [exc |-> "", track_number |-> <<number.value.n>>])))))))

\* album, ids, year and track number from the first release of a recording
ReleaseOf(recording) ==
  LET none == [exc |-> "", album |-> Str(""), release_id |-> NoneValue,
               track_number |-> NoInt, year |-> NoInt]
  IN  IF "release-list" \notin KeysOf(recording) THEN none
      ELSE Bind(GetItem(recording, "release-list"), LAMBDA releases :
        IF ~TruthyValue(releases) THEN none
        ELSE Bind(Index0(releases), LAMBDA first_release :
          IF first_release.exc # "" THEN [none EXCEPT !.exc = first_release.exc]
          ELSE Bind(Get(first_release.value, "title", Str("")), LAMBDA album :
            IF album.exc # "" THEN [none EXCEPT !.exc = album.exc]
            ELSE Bind(YearOf(first_release.value), LAMBDA year :
              IF year.exc # "" THEN [none EXCEPT !.exc = year.exc]
              ELSE Bind(TrackNumberOf(first_release.value), LAMBDA track_number :
                IF track_number.exc # ""
                THEN [none EXCEPT !.exc = track_number.exc]
                ELSE [exc |-> "", album |-> album.value,
                      release_id |-> Get(first_release.value, "id", NoneValue).value,
                      track_number |-> track_number.track_number,
                      year |-> year.year])))))

\* _fuzzy_match(x, s) calls x.lower() once neither argument is false: a
\* value that is not a str has no such method
FuzzyRaises(x, s) == TruthyValue(x) /\ Truthy(s) /\ x.t # "str"

StrOf(x) == IF x.t = "str" THEN x.s ELSE ""

\* _calculate_confidence on the fields taken from the response
ConfidenceOf(title, artist, album, search_title, search_artist, search_album) ==
  IF \/ FuzzyRaises(title, search_title)
     \/ Truthy(search_artist) /\ FuzzyRaises(artist, search_artist)
     \/ Truthy(search_album) /\ FuzzyRaises(album, search_album)
  THEN [exc |-> "AttributeError", confidence |-> Frac(0, 1)]
  ELSE [exc |-> "",
        confidence |-> calculate_confidence(StrOf(title), StrOf(artist), StrOf(album),
                                            search_title, search_artist, search_album)]

MetadataMatch(title, artist, album, track_number, year, confidence, recording_id, release_id, artist_id) ==
  [title |-> title, artist |-> artist, album |-> album,
   track_number |-> track_number, year |-> year, confidence |-> confidence,
   source |-> "musicbrainz", recording_id |-> recording_id,
   release_id |-> release_id, artist_id |-> artist_id]

\* the exceptions _parse_recording catches
CaughtByParse == {"KeyError", "TypeError", "IndexError"}

\* the try block of _parse_recording: the MetadataMatch it builds, as <<m>>,
\* or the exception raised on the way
ParseOutcome(recording, search_title, search_artist, search_album) ==
  Bind(Get(recording, "title", Str("")), LAMBDA title :
    IF title.exc # "" THEN [exc |-> title.exc, match |-> <<>>]
    ELSE Bind(ArtistOf(recording), LAMBDA artist :
      IF artist.exc # "" THEN [exc |-> artist.exc, match |-> <<>>]
      ELSE Bind(ReleaseOf(recording), LAMBDA release :
        IF release.exc # "" THEN [exc |-> release.exc, match |-> <<>>]
        ELSE Bind(ConfidenceOf(title.value, artist.artist, release.album,
                               search_title, search_artist, search_album),
                  LAMBDA confidence :
          IF confidence.exc # "" THEN [exc |-> confidence.exc, match |-> <<>>]
          ELSE [exc |-> "",
                match |-> <<MetadataMatch(title.value, artist.artist, release.album,
                                          release.track_number, release.year,
                                          confidence.confidence,
                                          Get(recording, "id", Str("")).value,
                                          release.release_id, artist.artist_id)>>]))))

\* MusicBrainzClient._parse_recording: match is <<m>> for a MetadataMatch m
\* and <<>> for None; exc names an exception that leaves the method
parse_recording(recording, search_title, search_artist, search_album) ==
  Bind(ParseOutcome(recording, search_title, search_artist, search_album),
       LAMBDA outcome :
         IF outcome.exc \in CaughtByParse THEN [exc |-> "", match |-> <<>>]
         ELSE outcome)

\* the loop of search_track over the recordings from position i on
RECURSIVE ParseAll(_, _, _, _, _, _)
ParseAll(recordings, i, matches, title, artist, album) ==
  IF i > Len(recordings) THEN [exc |-> "", matches |-> matches]
  ELSE Bind(parse_recording(recordings[i], title, artist, album), LAMBDA parsed :
         IF parsed.exc # "" THEN [exc |-> parsed.exc, matches |-> <<>>]
         ELSE ParseAll(recordings, i + 1, matches \o parsed.match,
                       title, artist, album))

\* the keys of a dict, as a list
RECURSIVE KeyList(_, _)
KeyList(x, i) ==
  IF i > Len(x.d) THEN <<>> ELSE <<Str(x.d[i][1])>> \o KeyList(x, i + 1)

\* the characters of a str, as a list
RECURSIVE CharList(_, _)
CharList(s, i) ==
  IF i > Len(s) THEN <<>> ELSE <<Str(CharAt(s, i))>> \o CharList(s, i + 1)

\* what iterating over x yields
Iterate(x) ==
  CASE x.t = "list" -> Value(x.q)
    [] x.t = "str" -> Value(CharList(x.s, 1))
    [] x.t = "dict" -> Value(KeyList(x, 1))
    [] OTHER -> Raise("TypeError")

\* what the remote catalog does with a query: it raises WebServiceError, or
\* it returns a result
WebServiceError == [kind |-> "WebServiceError", result |-> NoneValue]

Returns(value) == [kind |-> "result", result |-> value]

\* the body of search_track after the wait: what it returns, or the
\* exception that leaves it
search_result(title, artist, album, limit, response) ==
  IF response.kind = "WebServiceError" THEN [exc |-> "", returned |-> <<>>]
  ELSE Bind(Get(response.result, "recording-list", List(<<>>)), LAMBDA recording_list :
    IF recording_list.exc # "" THEN [exc |-> recording_list.exc, returned |-> <<>>]
    ELSE Bind(Iterate(recording_list.value), LAMBDA recordings :
      IF recordings.exc # "" THEN [exc |-> recordings.exc, returned |-> <<>>]
      ELSE Bind(ParseAll(recordings.value, 1, <<>>, title, artist, album),
                LAMBDA parsed :
        IF parsed.exc # "" THEN [exc |-> parsed.exc, returned |-> <<>>]
        ELSE [exc |-> "", returned |-> SortedDesc(parsed.matches)])))

\* any(c.isupper() for c in s[1:]), on the ASCII letters
UpperAfterFirst(s) ==
  \E k \in 2..Len(s) : Contains(UpperCase, CharAt(s, k))

\* LookupTitle that takes the tag title before the inferred one
LookupTitleTagFirst(track) ==
  IF Truthy(track.title) THEN track.title
  ELSE Or(track.inferred_title, StemOf(track))

\* the title, artist and album lookup_track searches for
LookupTitle(track) ==
  IF Truthy(track.inferred_title) THEN track.inferred_title
  ELSE IF Truthy(track.title)
          /\ (Contains(track.title, "(") \/ Contains(track.title, ")-"))
  THEN track.title
  ELSE Or(track.title, StemOf(track))

LookupArtist(track) ==
  IF Truthy(track.inferred_artist) THEN track.inferred_artist
  ELSE IF Truthy(track.artist) /\ ~Contains(track.artist, " ")
          /\ UpperAfterFirst(track.artist)
  THEN Or(track.inferred_artist, track.artist)
  ELSE track.artist

LookupAlbum(track) == Or(track.album, track.inferred_album)

-----------------------------------------------------------------------------
(* PatternDetector.analyze *)

EmptyAnalysis ==
  [filename_patterns |-> <<>>, folder_patterns |-> <<>>, special_patterns |-> <<>>]

\* AnalysisOf without the return for an empty library, over a flat check
\* that takes "at most one folder" for "one folder"
AnalysisOfNoEmptyCase(trks, root) ==
  [filename_patterns |-> detect_filename_patterns(trks),
   folder_patterns |-> IF Len(FolderKeys(trks)) <= 1 THEN FlatMatch(trks)
                       ELSE detect_folder_patterns(trks, root),
   special_patterns |-> detect_special_patterns(trks)]

\* the PatternAnalysis analyze returns for a library
AnalysisOf(trks, root) ==
  IF trks = <<>> THEN EmptyAnalysis
  ELSE [filename_patterns |-> detect_filename_patterns(trks),
        folder_patterns |-> detect_folder_patterns(trks, root),
        special_patterns |-> detect_special_patterns(trks)]

-----------------------------------------------------------------------------
(* Operations *)

MaxTracks == 3

\* add_track leaving the cached groupings in place
add_track_keep_caches(track) ==
  /\ Len(tracks) < MaxTracks
  /\ tracks' = Append(tracks, track)
  /\ last_call' = "add_track"
  /\ UNCHANGED <<root_path, analysis, _artists, _albums, returned>>
  /\ UNCHANGED clientvars

\* Library.add_track
add_track(track) ==
  /\ Len(tracks) < MaxTracks
  /\ tracks' = Append(tracks, track)
  /\ _artists' = <<>>
  /\ _albums' = <<>>
  /\ last_call' = "add_track"
  /\ UNCHANGED <<root_path, analysis, returned>>
  /\ UNCHANGED clientvars

\* Library.get_artists
get_artists ==
  /\ _artists' = IF _artists = <<>> THEN <<GroupArtists(tracks, 1, <<>>)>>
                 ELSE _artists
  /\ returned' = _artists'
  /\ last_call' = "get_artists"
  /\ UNCHANGED <<root_path, tracks, analysis, _albums>>
  /\ UNCHANGED clientvars

\* Library.get_albums
get_albums ==
  /\ _albums' = IF _albums = <<>> THEN <<GroupAlbums(tracks, 1, <<>>)>>
                ELSE _albums
  /\ returned' = _albums'
  /\ last_call' = "get_albums"
  /\ UNCHANGED <<root_path, tracks, analysis, _artists>>
  /\ UNCHANGED clientvars

\* PatternDetector.analyze(library)
analyze ==
  LET a == AnalysisOf(tracks, root_path)
  IN  /\ analysis' = <<a>>
      /\ tracks' = IF tracks = <<>> THEN tracks
                   ELSE apply_inferences(tracks, root_path, a)
      /\ last_call' = "analyze"
      /\ UNCHANGED <<root_path, _artists, _albums, returned>>
      /\ UNCHANGED clientvars

\* a call of MusicBrainzClient._fuzzy_match(str1, str2) on the arguments
\* held in args
call_fuzzy_match ==
  /\ last_call = "init"
  /\ Len(args) = 2
  /\ result' = <<fuzzy_match(args[1], args[2])>>
  /\ last_call' = "_fuzzy_match"
  /\ UNCHANGED <<libvars, rate_limiter, now, slept, args, waits, queries, threads>>

\* a call of MusicBrainzClient._calculate_confidence on the arguments held
\* in args
call_calculate_confidence ==
  /\ last_call = "init"
  /\ Len(args) = 6
  /\ result' = <<calculate_confidence(args[1], args[2], args[3],
                                      args[4], args[5], args[6])>>
  /\ last_call' = "_calculate_confidence"
  /\ UNCHANGED <<libvars, rate_limiter, now, slept, args, waits, queries, threads>>

\* the longest run of the clock, the most queries sent, and the longest a
\* sleep overruns or a query takes
MaxTime == 10

MaxCalls == 3

MaxDelay == 1

\* one second, in clock ticks
TicksPerSecond == 4

\* RateLimiter.__init__: min_interval = 1.0 / calls_per_second
RateLimiter(calls_per_second) ==
  [min_interval |-> TicksPerSecond \div calls_per_second, last_call |-> NoneInt]

\* RateLimiter.wait that records the time it was entered, not the time
\* after the sleep
wait_stamp_on_entry(limiter, t, overrun) ==
  LET elapsed == t - limiter.last_call
      sleeps == IF limiter.last_call # NoneInt /\ elapsed < limiter.min_interval
                THEN <<limiter.min_interval - elapsed>> ELSE <<>>
      woke == IF sleeps = <<>> THEN t ELSE t + sleeps[1] + overrun
  IN  [rate_limiter |-> [limiter EXCEPT !.last_call = t],
       slept |-> sleeps, now |-> woke]

\* RateLimiter.wait, entered at time t: the limiter, the time.sleep calls
\* made and the time after it; a sleep lasts its argument and overrun more
wait(limiter, t, overrun) ==
  LET elapsed == t - limiter.last_call
      sleeps == IF limiter.last_call # NoneInt /\ elapsed < limiter.min_interval
                THEN <<limiter.min_interval - elapsed>> ELSE <<>>
      woke == IF sleeps = <<>> THEN t ELSE t + sleeps[1] + overrun
  IN  [rate_limiter |-> [limiter EXCEPT !.last_call = woke],
       slept |-> sleeps, now |-> woke]

\* search_track as called under the name op: the wait, then the query, which
\* the remote catalog answers with response after the time took, then the
\* parsing of the answer
Search(op, title, artist, album, limit, overrun, took, response) ==
  LET waited == wait(rate_limiter, now, overrun)
  IN  /\ queries < MaxCalls
      /\ waited.now + took <= MaxTime
      /\ rate_limiter' = waited.rate_limiter
      /\ slept' = waited.slept
      /\ waits' = waits + 1
      /\ queries' = queries + 1
      /\ now' = waited.now + took
      /\ args' = [title |-> title, artist |-> artist, album |-> album,
                  limit |-> limit, response |-> response]
      /\ result' = search_result(title, artist, album, limit, response)
      /\ last_call' = op
      /\ UNCHANGED <<libvars, threads>>

\* MusicBrainzClient.search_track(title, artist, album, limit)
search_track(title, artist, album, limit, overrun, took, response) ==
  Search("search_track", title, artist, album, limit, overrun, took, response)

\* MusicBrainzClient.lookup_track(track, limit)
lookup_track(track, limit, overrun, took, response) ==
  Search("lookup_track", LookupTitle(track), LookupArtist(track),
         LookupAlbum(track), limit, overrun, took, response)

\* time passes between two calls
tick ==
  /\ now < MaxTime
  /\ now' = now + 1
  /\ UNCHANGED <<libvars, last_call, rate_limiter, slept, args, result, waits, queries,
                  threads>>

\* RateLimiter.wait called by one of several threads, statement by
\* statement.  A thread is outside wait ("idle"), about to test last_call
\* ("test"), about to read the clock and last_call ("elapsed"), in
\* time.sleep until the clock reaches wake ("sleep"), or about to record
\* the time ("stamp").
ThreadIds == {1, 2}

Idle == [pc |-> "idle", wake |-> NoneInt, returned |-> NoneInt]

ThreadStep(th, pc, wake, returned_at) ==
  /\ threads' = [threads EXCEPT ![th] = [pc |-> pc, wake |-> wake, returned |-> returned_at]]
  /\ last_call' = "wait"

\* a thread calls wait()
wait_call(th) ==
  /\ threads[th].pc = "idle"
  /\ waits < MaxCalls
  /\ waits' = waits + 1
  /\ ThreadStep(th, "test", NoneInt, threads[th].returned)
  /\ UNCHANGED <<libvars, rate_limiter, now, slept, args, result, queries>>

\* if self.last_call is not None:
wait_test(th) ==
  /\ threads[th].pc = "test"
  /\ ThreadStep(th, IF rate_limiter.last_call # NoneInt THEN "elapsed" ELSE "stamp",
                NoneInt, threads[th].returned)
  /\ UNCHANGED <<libvars, rate_limiter, now, slept, args, result, waits, queries>>

\* elapsed = time.time() - self.last_call; if elapsed < self.min_interval:
wait_elapsed(th) ==
  LET elapsed == now - rate_limiter.last_call
  IN  /\ threads[th].pc = "elapsed"
      /\ IF elapsed < rate_limiter.min_interval
         THEN /\ ThreadStep(th, "sleep", now + (rate_limiter.min_interval - elapsed),
                            threads[th].returned)
              /\ slept' = <<rate_limiter.min_interval - elapsed>>
         ELSE /\ ThreadStep(th, "stamp", NoneInt, threads[th].returned)
              /\ slept' = slept
      /\ UNCHANGED <<libvars, rate_limiter, now, args, result, waits, queries>>

\* time.sleep(self.min_interval - elapsed) returns, at the time asked for
\* or later
wait_sleep(th) ==
  /\ threads[th].pc = "sleep"
  /\ now >= threads[th].wake
  /\ ThreadStep(th, "stamp", NoneInt, threads[th].returned)
  /\ UNCHANGED <<libvars, rate_limiter, now, slept, args, result, waits, queries>>

\* self.last_call = time.time(), and wait returns
wait_stamp(th) ==
  /\ threads[th].pc = "stamp"
  /\ rate_limiter' = [rate_limiter EXCEPT !.last_call = now]
  /\ ThreadStep(th, "idle", NoneInt, now)
  /\ UNCHANGED <<libvars, now, slept, args, result, waits, queries>>

-----------------------------------------------------------------------------
(* Libraries *)

Root == <<"m">>

Mp3(folder, stem) == Track(folder, stem \o ".mp3", None, None, None)

\* n copies of one track
RECURSIVE Rep(_, _)
Rep(track, n) == IF n = 0 THEN <<>> ELSE <<track>> \o Rep(track, n - 1)

\* a library, and a client made with rate_limit = calls_per_second, with
\* the arguments a about to be passed to it
InitClient(trks, a, calls_per_second) ==
  /\ args = a
  /\ root_path = Root
  /\ tracks = trks
  /\ analysis = <<>>
  /\ last_call = "init"
  /\ _artists = <<>>
  /\ _albums = <<>>
  /\ returned = <<>>
  /\ rate_limiter = RateLimiter(calls_per_second)
  /\ now = 0
  /\ slept = <<>>
  /\ result = <<>>
  /\ waits = 0
  /\ queries = 0
  /\ threads = [th \in ThreadIds |-> Idle]

\* the same with the default rate_limit = 1.0
InitWith(trks, a) == InitClient(trks, a, 1)

InitLibrary(trks) == InitWith(trks, <<>>)

-----------------------------------------------------------------------------
(* Spec: the library life cycle.  Tracks are added one at a time and the   *)
(* library is analyzed at any point, any number of times.  The pool has    *)
(* one file name of each filename pattern type, in the root folder, and    *)
(* two in an Artist/Album folder whose name has a year and a variety       *)
(* indicator.                                                              *)

YearFolder == <<"m", "A", "OST (1999)">>

TrackPool ==
  {Mp3(Root, s) : s \in {"1-a-b", "1 - a", "a-b-c", "a - b", "a"}}
    \cup {Mp3(YearFolder, "a"), Mp3(YearFolder, "1 - a")}

Init == InitLibrary(<<>>)

Next ==
  \/ \E t \in TrackPool : add_track(t)
  \/ analyze

Spec == Init /\ [][Next]_vars

-----------------------------------------------------------------------------
(* SpecStems: libraries of one track whose file stem is any string of up   *)
(* to MaxStemLen characters, alone or followed by one more track.          *)

MaxStemLen == 4

StemChars == {"1", "a", "-", ".", " "}

RECURSIVE StringsOfLen(_)
StringsOfLen(n) ==
  IF n = 0 THEN {""}
  ELSE {s \o c : s \in StringsOfLen(n - 1), c \in StemChars}

AllStems == UNION {StringsOfLen(n) : n \in 0..MaxStemLen}

SecondTracks == {<<>>, <<Mp3(Root, "1 - a")>>, <<Mp3(Root, "a - b")>>}

\* longer stems: a number of 1, 2, 3 and 4 digits before " - Title"
LongStems == {"1 - a", "12 - a b", "123 - a.b", "1234 - a", "123-a", "1234-a"}

InitStems ==
  \E s \in AllStems \cup LongStems, more \in SecondTracks :
     InitLibrary(<<Mp3(Root, s)>> \o more)

NextStems == analyze

SpecStems == InitStems /\ [][NextStems]_vars

-----------------------------------------------------------------------------
(* SpecBulk: libraries of up to MaxBulk files named "a" and up to MaxMinor *)
(* files of one other name, for the shares around 0.1.                     *)

MaxBulk == 46

MaxMinor == 5

MinorStems == {"1-a-b", "1.a", "a-b-c", "a-b", "b", "a\nb"}

InitBulk ==
  \E n \in 0..MaxBulk, k \in 0..MaxMinor, s \in MinorStems :
     InitLibrary(Rep(Mp3(Root, "a"), n) \o Rep(Mp3(Root, s), k))

NextBulk ==
  \/ \E s \in MinorStems : add_track(Mp3(Root, s))
  \/ analyze

SpecBulk == InitBulk /\ [][NextBulk]_vars

-----------------------------------------------------------------------------
(* SpecFolders: one file name in folders at every depth, under and outside *)
(* the root; libraries start with up to MaxFill tracks of one folder and   *)
(* up to two tracks of a disc folder.                                      *)

MaxFill == 11

DiscFolder == <<"m", "A", "X", "cd1">>

FolderPool ==
  {Mp3(f, "a") : f \in {Root, <<"m", "A">>, <<"m", "B">>, <<"m", "A", "X">>,
                        <<"m", "B", "Y">>, DiscFolder, <<"m", "A", "X", "live">>,
                        <<"o">>}}

InitFolders ==
  \E n \in 0..MaxFill, k \in 0..2, f \in {Root, <<"m", "A", "X">>} :
     InitLibrary(Rep(Mp3(f, "a"), n) \o Rep(Mp3(DiscFolder, "a"), k))

NextFolders ==
  \/ \E t \in FolderPool : add_track(t)
  \/ analyze

SpecFolders == InitFolders /\ [][NextFolders]_vars

-----------------------------------------------------------------------------
(* SpecInfer: tracks whose inferred artist and album are set, or set to    *)
(* the empty string, by one analysis and met by folder inference in a      *)
(* later one, in folders of 0, 1 and 2 segments below the root and outside *)
(* it.                                                                     *)

InferPool ==
  {Mp3(<<"m", "A", "X">>, "1- -b"), Mp3(<<"m", "A", "X">>, "1-c-d"),
   Mp3(<<"m", "A">>, "a-b-c"), Mp3(<<"m", "A">>, "a"), Mp3(Root, "a"),
   Mp3(<<"o">>, "1.a"), Mp3(<<"m", "A", "X">>, "1.a")}

NextInfer ==
  \/ \E t \in InferPool : add_track(t)
  \/ analyze

SpecInfer == Init /\ [][NextInfer]_vars

(* SpecFrame: a track that carries tags, a stem no filename regex matches  *)
(* (it holds a line break), and tracks of other types, in and outside the  *)
(* root.                                                                   *)

TaggedTrack == Track(<<"m", "A", "X">>, "1-c-d.mp3", "T", "R", "L")

FramePool ==
  {TaggedTrack, Mp3(<<"m", "A", "X">>, "a\nb"), Mp3(<<"m", "A">>, "a - b"),
   Mp3(Root, "1 - a"), Mp3(<<"o">>, "a")}

NextFrame ==
  \/ \E t \in FramePool : add_track(t)
  \/ analyze

SpecFrame == Init /\ [][NextFrame]_vars

(* SpecGroup: add_track, get_artists and get_albums in any order, over     *)
(* tracks whose artist and album come from the tag, from an inferred       *)
(* field, or from neither.                                                 *)

GroupPool ==
  {Track(Root, "a.mp3", None, "R", "L"),
   Track(Root, "b.mp3", None, "R", None),
   [Track(Root, "c.mp3", None, "", None)
      EXCEPT !.inferred_artist = "R", !.inferred_album = "L"],
   [Track(<<"m", "A">>, "d.mp3", None, None, "L") EXCEPT !.inferred_artist = "c"],
   Mp3(Root, "e")}

NextGroup ==
  \/ \E t \in GroupPool : add_track(t)
  \/ get_artists
  \/ get_albums

SpecGroup == Init /\ [][NextGroup]_vars

(* SpecFuzzy: _fuzzy_match on every pair of short strings over three       *)
(* letters, and on strings with upper case and surrounding whitespace.     *)

MaxFuzzyLen == 3

FuzzyChars == {"a", "b", "c"}

RECURSIVE FuzzyStringsOfLen(_)
FuzzyStringsOfLen(n) ==
  IF n = 0 THEN {""}
  ELSE {c \o t : c \in FuzzyChars, t \in FuzzyStringsOfLen(n - 1)}

FuzzyStrings ==
  UNION {FuzzyStringsOfLen(n) : n \in 0..MaxFuzzyLen}
    \cup {" ", "\t ", " a", "A", "aB ", "Ab"}

InitFuzzy == \E str1, str2 \in FuzzyStrings : InitWith(<<>>, <<str1, str2>>)

NextFuzzy == call_fuzzy_match

SpecFuzzy == InitFuzzy /\ [][NextFuzzy]_vars

(* SpecConfidence: _calculate_confidence for candidates that match the     *)
(* search fields exactly, in part or not at all, with the search artist    *)
(* and album given, empty or None.                                         *)

ResultFields == {"ab", "ba", ""}

SearchTitles == {"ab", "b"}

SearchOptionals == {None, "", "ab", "a"}

InitConfidence ==
  \E result_title, result_artist, result_album \in ResultFields,
     search_title \in SearchTitles,
     search_artist, search_album \in SearchOptionals :
       InitWith(<<>>, <<result_title, result_artist, result_album,
                        search_title, search_artist, search_album>>)

NextConfidence == call_calculate_confidence

SpecConfidence == InitConfidence /\ [][NextConfidence]_vars

(* SpecLimiter: search_track and lookup_track called one after another,   *)
(* at once or after a while, on clients of 1, 2 and 4 calls per second;   *)
(* the remote catalog answers with no candidates or fails.                *)

Rates == {1, 2, 4}

EmptyResult == Returns(Dict(<<>>))

LimiterResponses == {EmptyResult, WebServiceError}

LookedUp == [Mp3(Root, "a") EXCEPT !.inferred_title = "ab", !.artist = "ab"]

\* a client built with rate_limit = calls_per_second
InitLimiter ==
  \E calls_per_second \in Rates :
     InitClient(<<>>, <<calls_per_second>>, calls_per_second)

NextLimiter ==
  \/ tick
  \/ \E overrun, took \in 0..MaxDelay, response \in LimiterResponses :
        search_track("ab", None, None, 1, overrun, took, response)
  \/ \E overrun, took \in 0..MaxDelay, response \in LimiterResponses :
        lookup_track(LookedUp, 1, overrun, took, response)

SpecLimiter == InitLimiter /\ [][NextLimiter]_vars

(* SpecThreads: two threads calling wait() on the limiter of one client,   *)
(* their statements interleaved in every way, while time passes.           *)

NextThreads ==
  \/ tick
  \/ \E th \in ThreadIds :
        \/ wait_call(th)
        \/ wait_test(th)
        \/ wait_elapsed(th)
        \/ wait_sleep(th)
        \/ wait_stamp(th)

SpecThreads == InitLimiter /\ [][NextThreads]_vars

(* SpecSearch: one query answered with up to MaxCandidates candidate      *)
(* records, well-formed or not, in any order, or with a failure.          *)

MaxCandidates == 3

MaxLimit == 2

ArtistNamed(name) == Dict(<<<<"name", Str(name)>>, <<"id", Str("a1")>>>>)

\* a candidate record with one artist credit and one release of one medium
Recording(title, artist, date, number) ==
  LET medium == Dict(<<<<"track-list", List(<<Dict(<<<<"number", number>>>>)>>)>>>>)
      release == Dict(<<<<"title", Str("ab")>>, <<"id", Str("r1")>>,
                        <<"date", date>>, <<"medium-list", List(<<medium>>)>>>>)
  IN  Dict(<<<<"title", Str(title)>>, <<"id", Str("i1")>>,
             <<"artist-credit", List(<<Dict(<<<<"artist", artist>>>>)>>)>>,
             <<"release-list", List(<<release>>)>>>>)

\* a perfect match; a poor match whose date and track number are not
\* numbers; a record with a title only; a record whose date is an int
\* (len() raises TypeError); a record whose artist is a plain string
\* (.get raises AttributeError)
Candidates ==
  {Recording("ab", ArtistNamed("ab"), Str("1999-01-02"), Str("7")),
   Recording("ba", ArtistNamed("b"), Str("abcd-01"), Str("A1")),
   Dict(<<<<"title", Str("b")>>>>),
   Recording("ab", ArtistNamed("ab"), IntValue(1999), Str("7")),
   Recording("ab", Str("ab"), Str("1999-01-02"), Str("7"))}

RECURSIVE CandidateLists(_)
CandidateLists(n) ==
  IF n = 0 THEN {<<>>}
  ELSE {<<c>> \o q : c \in Candidates, q \in CandidateLists(n - 1)}

SearchResponses ==
  {WebServiceError}
    \cup {Returns(Dict(<<<<"recording-list", List(q)>>>>)) :
            q \in UNION {CandidateLists(n) : n \in 0..MaxCandidates}}

SearchedFor == [Mp3(Root, "ab - ab") EXCEPT !.inferred_title = "ab", !.inferred_artist = "ab"]

NextSearch ==
  /\ queries = 0
  /\ \/ \E artist \in {None, "ab"}, limit \in 1..MaxLimit, response \in SearchResponses :
           search_track("ab", artist, None, limit, 0, 0, response)
     \/ \E limit \in 1..MaxLimit, response \in SearchResponses :
           lookup_track(SearchedFor, limit, 0, 0, response)

SpecSearch == Init /\ [][NextSearch]_vars

(* SpecLookup: lookup_track, up to MaxCalls times, on a track whose tag    *)
(* and inferred fields are None, empty or set; the tag title may look     *)
(* like a file name and the tag artist like camel case.                   *)

LookupTitles == {None, "", "T", "a(b"}

LookupArtists == {None, "", "R", "aB"}

LookupOptionals == {None, "", "c"}

\* a library of one track with the given tag and inferred fields
InitLookup ==
  \E title \in LookupTitles, artist \in LookupArtists, album \in LookupOptionals,
     inferred_title, inferred_artist, inferred_album \in LookupOptionals :
       InitLibrary(<<[Track(Root, "s.mp3", title, artist, album)
                        EXCEPT !.inferred_title = inferred_title,
                               !.inferred_artist = inferred_artist,
                               !.inferred_album = inferred_album]>>)

NextLookup ==
  \E limit \in 1..MaxLimit : lookup_track(tracks[1], limit, 0, 0, EmptyResult)

SpecLookup == InitLookup /\ [][NextLookup]_vars

-----------------------------------------------------------------------------
(* SpecSpecial: up to MaxFill files named "a" in the root folder and up to *)
(* three files of one other stem in one other folder, for the shares of    *)
(* numbered stems around 0.25 and of year folders around 0.1.              *)

SpecialStems == {"a", "12 - a", "1.a", "123_a", "1234-a", "1a"}

SpecialFolders ==
  {Root, <<"m", "X (1999)">>, <<"m", "X [ 1999 ]">>, <<"m", "X (199)">>,
   <<"m", "(1999) X", "Y">>}

SpecialPool == {Mp3(f, s) : f \in SpecialFolders, s \in SpecialStems}

InitSpecial ==
  \E n \in 0..MaxFill, k \in 0..3, t \in SpecialPool :
     InitLibrary(Rep(Mp3(Root, "a"), n) \o Rep(t, k))

NextSpecial ==
  \/ \E t \in {Mp3(Root, "1.a"), Mp3(<<"m", "X (1999)">>, "a")} : add_track(t)
  \/ analyze

SpecSpecial == InitSpecial /\ [][NextSpecial]_vars

-----------------------------------------------------------------------------
(* SpecCompilation: untagged files in the root folder and one more folder, *)
(* named after a variety indicator or not: up to MaxPlain files beside one *)
(* file of that folder, or up to three beside up to MaxMembers files of    *)
(* which the first few have artists of their own, as tag or as inferred    *)
(* artist, and the others none or the first one's.                         *)

MaxPlain == 21

MaxMembers == 10

RECURSIVE ArtistName(_)
ArtistName(i) == IF i = 0 THEN "" ELSE "r" \o ArtistName(i - 1)

\* the i-th file of the folder, with its own artist if i <= distinct and
\* the artist other if not, in the tag when tagged and else inferred
Member(folder, i, distinct, other, tagged) ==
  LET artist == IF i <= distinct THEN ArtistName(i) ELSE other
  IN  IF tagged THEN Track(folder, "a.mp3", None, artist, None)
      ELSE [Track(folder, "a.mp3", None, None, None) EXCEPT !.inferred_artist = artist]

RECURSIVE Members(_, _, _, _, _)
Members(folder, m, distinct, other, tagged) ==
  IF m = 0 THEN <<>>
  ELSE Append(Members(folder, m - 1, distinct, other, tagged),
              Member(folder, m, distinct, other, tagged))

InitCompilation ==
  \E folder \in {<<"m", "My OST">>, <<"m", "X">>} :
     \/ \E n \in 0..MaxPlain :
           InitLibrary(Rep(Mp3(Root, "a"), n) \o <<Mp3(folder, "a")>>)
     \/ \E n \in 0..3, m \in 0..MaxMembers, other \in {None, "", "r"},
           tagged \in BOOLEAN :
             \E distinct \in 0..m :
                InitLibrary(Rep(Mp3(Root, "a"), n)
                              \o Members(folder, m, distinct, other, tagged))

NextCompilation ==
  \/ \E t \in {Mp3(Root, "a"), Mp3(<<"m", "va 1">>, "a")} : add_track(t)
  \/ analyze

SpecCompilation == InitCompilation /\ [][NextCompilation]_vars

-----------------------------------------------------------------------------
(* SpecViews: add_track, analyze, get_artists and get_albums in any order, *)
(* over a track with all tags, a track whose tags are empty strings and an *)
(* untagged track, with stems from which an analysis infers all fields or  *)
(* some.                                                                   *)

ViewPool ==
  {Track(<<"m", "A", "X">>, "1-c-d.mp3", "T", "R", "L"),
   Track(Root, "c-d-e.mp3", "", "", ""),
   Mp3(<<"m", "A">>, "c-d-e")}

NextViews ==
  \/ \E t \in ViewPool : add_track(t)
  \/ analyze
  \/ get_artists
  \/ get_albums

SpecViews == Init /\ [][NextViews]_vars

-----------------------------------------------------------------------------
(* SpecRepeat: analyses repeated on a library of up to three untagged      *)
(* files in the root folder and a folder of up to MaxMembers untagged      *)
(* files named 'Artist-Title', the first few with artists of their own.    *)

RECURSIVE ArtistTitleFiles(_, _)
ArtistTitleFiles(m, distinct) ==
  IF m = 0 THEN <<>>
  ELSE Append(ArtistTitleFiles(m - 1, distinct),
              Mp3(<<"m", "X">>, ArtistName(IF m <= distinct THEN m ELSE 1) \o "-x"))

InitRepeat ==
  \E n \in 0..3, m \in 0..MaxMembers :
     \E distinct \in 0..m :
        InitLibrary(Rep(Mp3(Root, "a"), n) \o ArtistTitleFiles(m, distinct))

NextRepeat ==
  \/ \E t \in {Mp3(Root, "a"), Mp3(<<"m", "X">>, "r-x")} : add_track(t)
  \/ analyze

SpecRepeat == InitRepeat /\ [][NextRepeat]_vars

-----------------------------------------------------------------------------
(* SpecMixed: libraries with up to two files of each filename pattern type *)
(* and up to one file whose stem no type matches.                          *)

MixedStems == <<"1-a-b", "1 - a", "a-b-c", "a - b", "a", "a\nb">>

RECURSIVE MixedTracks(_, _)
MixedTracks(counts, k) ==
  IF k = 0 THEN <<>>
  ELSE MixedTracks(counts, k - 1) \o Rep(Mp3(Root, MixedStems[k]), counts[k])

InitMixed ==
  \E counts \in [1..5 -> 0..2], unmatched \in 0..1 :
     InitLibrary(MixedTracks(counts \o <<unmatched>>, 6))

NextMixed ==
  \/ \E k \in 1..6 : add_track(Mp3(Root, MixedStems[k]))
  \/ analyze

SpecMixed == InitMixed /\ [][NextMixed]_vars





-----------------------------------------------------------------------------
(* Properties *)

\* the state was produced by analyze; Result is what it returned
Analyzed == last_call = "analyze" /\ analysis # <<>>

Result == analysis[1]

Stems == [i \in 1..Len(tracks) |-> StemOf(tracks[i])]

RECURSIVE SumMatching(_)
SumMatching(patterns) ==
  IF patterns = <<>> THEN 0
  ELSE Head(patterns).matching_tracks + SumMatching(Tail(patterns))

\* a + b on confidences
AddConf(a, b) == Frac(a.num * b.den + b.num * a.den, a.den * b.den)

RECURSIVE SumConfidence(_)
SumConfidence(patterns) ==
  IF patterns = <<>> THEN Frac(0, 1)
  ELSE AddConf(Head(patterns).confidence, SumConfidence(Tail(patterns)))

One == Frac(1, 1)

InUnitInterval(c) == c.den > 0 /\ c.num >= 0 /\ c.num <= c.den

\* the first type, in the order TRACK_ARTIST_TITLE, TRACK_TITLE,
\* ARTIST_ALBUM_TITLE, ARTIST_TITLE, TITLE_ONLY, one of whose regexes matches
FirstMatchingType(stem) ==
  IF matches_filename_pattern(stem, TRACK_ARTIST_TITLE) THEN TRACK_ARTIST_TITLE
  ELSE IF matches_filename_pattern(stem, TRACK_TITLE) THEN TRACK_TITLE
  ELSE IF matches_filename_pattern(stem, ARTIST_ALBUM_TITLE) THEN ARTIST_ALBUM_TITLE
  ELSE IF matches_filename_pattern(stem, ARTIST_TITLE) THEN ARTIST_TITLE
  ELSE IF matches_filename_pattern(stem, TITLE_ONLY) THEN TITLE_ONLY
  ELSE "no type"

\* the number of tracks whose first matching type is pt
FirstMatchCount(pt) ==
  LET stems_of_type == {s \in SeqRange(Stems) : FirstMatchingType(s) = pt}
  IN  Cardinality({i \in 1..Len(tracks) : Stems[i] \in stems_of_type})

\* C1: after analyze on a non-empty library every emitted filename pattern
\* counts exactly the tracks whose first matching type, in the fixed order,
\* it is; so the matching_tracks of the filename patterns sum to at most
\* total_tracks, every confidence lies in [0,1] and the confidences sum to at
\* most 1.
C1_CountedOnce ==
  (Analyzed /\ tracks # <<>>) =>
     LET fp == Result.filename_patterns
     IN  /\ \A k \in 1..Len(fp) :
              /\ fp[k].matching_tracks = FirstMatchCount(fp[k].pattern_type)
              /\ fp[k].total_tracks = Len(tracks)
              /\ InUnitInterval(fp[k].confidence)
         /\ SumMatching(fp) <= Len(tracks)
         /\ Geq(One, SumConfidence(fp))

\* C1 witness: an analyzed library of three tracks, one of them matching
\* several types, with more than one filename pattern emitted
C1_Witness ==
  /\ Analyzed
  /\ Len(tracks) = 3
  /\ Len(Result.filename_patterns) >= 2
  /\ \E i \in 1..Len(tracks) :
        /\ matches_filename_pattern(Stems[i], TRACK_ARTIST_TITLE)
        /\ matches_filename_pattern(Stems[i], ARTIST_TITLE)

\* the stem begins with 1-3 digits, optional whitespace and a separator
BeginsWithNumberAndSeparator(stem) ==
  \E d \in 1..3 :
     /\ d < Len(stem)
     /\ \A j \in 1..d : CharAt(stem, j) \in Digits
     /\ \E q \in (d + 1)..Len(stem) :
           /\ \A j \in (d + 1)..(q - 1) : CharAt(stem, j) \in Whitespace
           /\ CharAt(stem, q) \in {"-", ".", "_"}

\* the stem could parse as the generic two-part form and begins as a
\* numbered one
ParsesAsBoth(stem) ==
  BeginsWithNumberAndSeparator(stem) /\ matches_filename_pattern(stem, ARTIST_TITLE)

\* the stem is 'NN - Title': 1-3 digits, " - ", and a title with no further
\* '-' or '_'
NumberTitleForm(stem) ==
  \E d \in 1..3 :
     /\ Len(stem) >= d + 4
     /\ \A j \in 1..d : CharAt(stem, j) \in Digits
     /\ SubSeq(stem, d + 1, d + 3) = " - "
     /\ \A j \in (d + 4)..Len(stem) : CharAt(stem, j) \notin {"-", "_", "\n"}

\* the tracks the emitted filename patterns of the given types count
MatchingOfTypes(types) ==
  SumMatching(SelectSeq(Result.filename_patterns,
                        LAMBDA m : m.pattern_type \in types))

NumberedTypes == {TRACK_TITLE, TRACK_ARTIST_TITLE}

GenericTypes == {ARTIST_TITLE, ARTIST_ALBUM_TITLE}

EmittedAs(pt) ==
  {k \in 1..Len(Result.filename_patterns) :
     Result.filename_patterns[k].pattern_type = pt}

\* C3: after analyze on a library of N >= 1 tracks, a filename pattern type
\* with c classified tracks is emitted iff c >= 1 and (c/N >= 0.1 or c >= 5),
\* once, with matching_tracks = c, total_tracks = N and confidence = c/N,
\* where N counts every track, also those that matched no type.
C3_EmissionRule ==
  (Analyzed /\ tracks # <<>>) =>
     \A pt \in SeqRange(FilenameTypes) :
        LET c == FirstMatchCount(pt)
            N == Len(tracks)
        IN  /\ Cardinality(EmittedAs(pt)) <= 1
            /\ (EmittedAs(pt) # {}) <=> (c >= 1 /\ (10 * c >= N \/ c >= 5))
            /\ \A k \in EmittedAs(pt) :
                  /\ Result.filename_patterns[k].matching_tracks = c
                  /\ Result.filename_patterns[k].total_tracks = N
                  /\ Result.filename_patterns[k].confidence = Frac(c, N)

\* C3 witness: a type with 5 tracks out of more than 50 is emitted with a
\* confidence below 0.1
C3_Witness ==
  /\ Analyzed
  /\ Len(tracks) > 50
  /\ \E k \in 1..Len(Result.filename_patterns) :
        /\ Result.filename_patterns[k].matching_tracks = 5
        /\ Gt(MinConfidence, Result.filename_patterns[k].confidence)
        /\ FirstMatchCount(Result.filename_patterns[k].pattern_type) = 5

\* the confidences of a list do not increase
NonIncreasing(patterns) ==
  \A k \in 1..(Len(patterns) - 1) :
     Geq(patterns[k].confidence, patterns[k + 1].confidence)

\* b holds the entries of a, each as often
SameEntries(a, b) ==
  /\ Len(a) = Len(b)
  /\ \A m \in SeqRange(a) \cup SeqRange(b) :
        Cardinality({k \in 1..Len(a) : a[k] = m})
          = Cardinality({k \in 1..Len(b) : b[k] = m})

\* primary is None for an empty list, else an entry of maximal confidence
PrimaryOf(primary, patterns) ==
  IF patterns = <<>> THEN primary = <<>>
  ELSE /\ primary # <<>>
       /\ primary[1] \in SeqRange(patterns)
       /\ \A m \in SeqRange(patterns) : Geq(primary[1].confidence, m.confidence)

C5_EmptyLibrary ==
  [][(analyze /\ tracks = <<>>) =>
        /\ analysis' = <<EmptyAnalysis>>
        /\ analysis'[1].filename_patterns = <<>>
        /\ analysis'[1].folder_patterns = <<>>
        /\ analysis'[1].special_patterns = <<>>
        /\ primary_filename_pattern(analysis'[1]) = <<>>
        /\ primary_folder_pattern(analysis'[1]) = <<>>
        /\ tracks' = <<>>
        /\ root_path' = root_path]_vars

\* C5 witness: analyze has returned on a library with no tracks
C5_Witness == Analyzed /\ tracks = <<>> /\ Result = EmptyAnalysis

-----------------------------------------------------------------------------
(* Folder structure *)

DistinctFolders == {tracks[i].folder : i \in 1..Len(tracks)}

\* the tracks whose folder lies the given number of segments below the root
TracksAtDepth(depth) ==
  {i \in 1..Len(tracks) :
     /\ Len(tracks[i].folder) = Len(root_path) + depth
     /\ SubSeq(tracks[i].folder, 1, Len(root_path)) = root_path}

FolderEntries(pt) ==
  {k \in 1..Len(Result.folder_patterns) :
     Result.folder_patterns[k].pattern_type = pt}

\* pt is emitted, once, counting c of the library's tracks, iff cond
EmittedIff(pt, cond, c) ==
  /\ Cardinality(FolderEntries(pt)) = (IF cond THEN 1 ELSE 0)
  /\ \A k \in FolderEntries(pt) :
        /\ Result.folder_patterns[k].matching_tracks = c
        /\ Result.folder_patterns[k].total_tracks = Len(tracks)
        /\ Result.folder_patterns[k].confidence = Frac(c, Len(tracks))

\* C6: after analyze on a library of N >= 1 tracks that all share one
\* folder, at whatever depth, folder_patterns is exactly one FOLDER_FLAT
\* entry with confidence 1.0 and matching_tracks = total_tracks = N.
C6_FlatFolder ==
  (Analyzed /\ Cardinality(DistinctFolders) = 1) =>
     /\ Len(Result.folder_patterns) = 1
     /\ Result.folder_patterns[1].pattern_type = FOLDER_FLAT
     /\ EqConf(Result.folder_patterns[1].confidence, One)
     /\ Result.folder_patterns[1].matching_tracks = Len(tracks)
     /\ Result.folder_patterns[1].total_tracks = Len(tracks)

\* C6 witness: several tracks in one folder two segments below the root,
\* reported as flat
C6_Witness ==
  /\ Analyzed
  /\ Len(tracks) >= 2
  /\ Cardinality(DistinctFolders) = 1
  /\ Cardinality(TracksAtDepth(2)) = Len(tracks)
  /\ Result.folder_patterns[1].pattern_type = FOLDER_FLAT

\* C7: after analyze on a library with at least two distinct folders,
\* FOLDER_ARTIST_ALBUM is emitted iff the tracks at depth 2 are at least half
\* of all tracks, with that share as confidence; so a library of only
\* Artist/Album folders under two or more artists has it with confidence 1.0.
C7_ArtistAlbum ==
  (Analyzed /\ Cardinality(DistinctFolders) >= 2) =>
     LET d2 == Cardinality(TracksAtDepth(2))
         artists == {tracks[i].folder[Len(root_path) + 1] : i \in TracksAtDepth(2)}
     IN  /\ EmittedIff(FOLDER_ARTIST_ALBUM, 2 * d2 >= Len(tracks), d2)
         /\ (d2 = Len(tracks) /\ Cardinality(artists) >= 2) =>
               \E k \in FolderEntries(FOLDER_ARTIST_ALBUM) :
                  EqConf(Result.folder_patterns[k].confidence, One)

\* C7 witness: tracks of two artists, all in Artist/Album folders, reported
\* as FOLDER_ARTIST_ALBUM
C7_Witness ==
  /\ Analyzed
  /\ Cardinality(TracksAtDepth(2)) = Len(tracks)
  /\ Cardinality({tracks[i].folder[Len(root_path) + 1] : i \in 1..Len(tracks)}) >= 2
  /\ FolderEntries(FOLDER_ARTIST_ALBUM) # {}

-----------------------------------------------------------------------------
(* Inference *)

\* the groups of the first regex of type pt that matches the stem; <<>> if
\* none matches
FirstGroups(pt, stem) ==
  IF ReMatch(FILENAME_PATTERNS(pt)[1], stem).ok
  THEN Groups(FILENAME_PATTERNS(pt)[1], stem)
  ELSE IF Len(FILENAME_PATTERNS(pt)) >= 2 /\ ReMatch(FILENAME_PATTERNS(pt)[2], stem).ok
  THEN Groups(FILENAME_PATTERNS(pt)[2], stem)
  ELSE <<>>

\* the inferred fields of track t are the groups g, as type pt assigns them
FieldsFromGroups(t, pt, g) ==
  CASE pt = TRACK_ARTIST_TITLE ->
         /\ t.inferred_track_number = safe_int(g[1])
         /\ t.inferred_track_number # NoneInt
         /\ t.inferred_artist = strip(g[2])
         /\ t.inferred_title = strip(g[3])
    [] pt = TRACK_TITLE ->
         /\ t.inferred_track_number = safe_int(g[1])
         /\ t.inferred_track_number # NoneInt
         /\ t.inferred_title = strip(g[2])
    [] pt = ARTIST_ALBUM_TITLE ->
         /\ t.inferred_artist = strip(g[1])
         /\ t.inferred_album = strip(g[2])
         /\ t.inferred_title = strip(g[3])
    [] pt = ARTIST_TITLE ->
         /\ t.inferred_artist = strip(g[1])
         /\ t.inferred_title = strip(g[2])
    [] pt = TITLE_ONLY ->
         t.inferred_title = strip(g[1])

\* after analyze every track whose stem matches a regex of the primary type
\* has its inferred fields from the groups of the first matching regex
InferredFromPrimary ==
  (Analyzed /\ primary_filename_pattern(Result) # <<>>) =>
     LET pt == primary_filename_pattern(Result)[1].pattern_type
     IN  \A i \in 1..Len(tracks) :
            FirstGroups(pt, Stems[i]) # <<>>
              => FieldsFromGroups(tracks[i], pt, FirstGroups(pt, Stems[i]))

\* the primary pattern is ARTIST_TITLE with confidence above 0.9 and every
\* track has an inferred artist and title
ArtistTitleInferred ==
  LET primary == primary_filename_pattern(Result)
  IN  /\ primary # <<>>
      /\ primary[1].pattern_type = ARTIST_TITLE
      /\ Gt(primary[1].confidence, Frac(9, 10))
      /\ \A i \in 1..Len(tracks) :
            tracks[i].inferred_artist # None /\ tracks[i].inferred_title # None

\* the stem is 'Artist - Title': two non-empty parts around " - "
ArtistTitleForm(stem) ==
  \E p \in 2..(Len(stem) - 3) : SubSeq(stem, p, p + 2) = " - "

\* the stem is 'Artist - Title' with no '-', '_' or line break in either part
\* and does not begin with 1-3 digits, optional whitespace and a separator
PlainArtistTitleForm(stem) ==
  /\ \E p \in 2..(Len(stem) - 3) :
        /\ SubSeq(stem, p, p + 2) = " - "
        /\ \A j \in (1..Len(stem)) \ {p + 1} :
              CharAt(stem, j) \notin {"-", "_", "\n"}
  /\ ~BeginsWithNumberAndSeparator(stem)

\* C9 as stated: inference from the primary type's groups, and a library
\* whose stems all have the form 'Artist - Title' gets ARTIST_TITLE as
\* primary pattern, with confidence above 0.9, and an inferred artist and
\* title on every track.
C9_AsStated ==
  /\ InferredFromPrimary
  /\ (Analyzed /\ tracks # <<>>
        /\ \A i \in 1..Len(tracks) : ArtistTitleForm(Stems[i]))
       => ArtistTitleInferred

\* C9, amended: after analyze every track whose stem matches a regex of the
\* primary filename pattern type has its inferred fields set from the groups
\* of the first matching regex, as the type assigns them, whatever type the
\* track was counted under; and a library whose stems all have the form
\* 'Artist - Title' with no '-', '_' or line break inside Artist or Title,
\* none beginning with 1-3 digits, optional whitespace and '-', '.' or '_',
\* gets ARTIST_TITLE as primary pattern, with confidence above 0.9, and an
\* inferred artist and title on every track.
C9_Inference ==
  /\ InferredFromPrimary
  /\ (Analyzed /\ tracks # <<>>
        /\ \A i \in 1..Len(tracks) : PlainArtistTitleForm(Stems[i]))
       => ArtistTitleInferred

\* C9 witness: the primary type is ARTIST_TITLE, and a track counted under
\* ARTIST_ALBUM_TITLE has artist and title from the ARTIST_TITLE groups,
\* beside a track of the plain 'Artist - Title' form
C9_Witness ==
  /\ Analyzed
  /\ primary_filename_pattern(Result) # <<>>
  /\ primary_filename_pattern(Result)[1].pattern_type = ARTIST_TITLE
  /\ \E i \in 1..Len(tracks) :
        /\ FirstMatchingType(Stems[i]) = ARTIST_ALBUM_TITLE
        /\ tracks[i].inferred_artist = "a"
        /\ tracks[i].inferred_title = "b-c"
  /\ \E i \in 1..Len(tracks) :
        /\ PlainArtistTitleForm(Stems[i])
        /\ tracks[i].inferred_artist = "a"
        /\ tracks[i].inferred_title = "b"

\* an analyze step whose primary filename pattern is TITLE_ONLY or
\* TRACK_TITLE: the step that runs folder-based inference
FolderInferenceStep ==
  /\ last_call' = "analyze"
  /\ analysis' # <<>>
  /\ primary_filename_pattern(analysis'[1]) # <<>>
  /\ primary_filename_pattern(analysis'[1])[1].pattern_type
        \in {TITLE_ONLY, TRACK_TITLE}

\* what folder-based inference leaves in the artist and album of track i,
\* when Kept(v) says that a field holding v is left as it is
FolderInferred(i, Kept(_)) ==
  LET old == tracks[i]
      new == tracks'[i]
      parts == RelativeParts(old.folder, root_path)
  IN  IF ~IsUnder(old.folder, root_path) \/ Len(parts) = 0
      THEN /\ new.inferred_artist = old.inferred_artist
           /\ new.inferred_album = old.inferred_album
      ELSE IF Len(parts) = 1
      THEN /\ new.inferred_artist = old.inferred_artist
           /\ new.inferred_album =
                IF Kept(old.inferred_album) THEN old.inferred_album ELSE parts[1]
      ELSE /\ new.inferred_artist =
                IF Kept(old.inferred_artist) THEN old.inferred_artist ELSE parts[1]
           /\ new.inferred_album =
                IF Kept(old.inferred_album) THEN old.inferred_album ELSE parts[2]

\* every track matching the primary type went through folder-based inference
FolderInference(Kept(_)) ==
  FolderInferenceStep =>
    /\ Len(tracks') = Len(tracks)
    /\ \A i \in 1..Len(tracks) :
          FirstGroups(primary_filename_pattern(analysis'[1])[1].pattern_type,
                      StemOf(tracks[i])) # <<>>
            => FolderInferred(i, Kept)

HoldsValue(v) == v # None

HoldsNonEmptyValue(v) == v # None /\ v # ""

\* C10 as stated: folder-based inference, run for a matching track when the
\* primary type is TITLE_ONLY or TRACK_TITLE, sets artist and album from the
\* first two segments of the folder below the root, album alone from a single
\* segment, nothing for the root itself or a folder outside it, and leaves a
\* field that already holds a value as it is.
C10_AsStated == [][FolderInference(HoldsValue)]_vars

\* C10, amended: folder-based inference, run for a matching track when the
\* primary type is TITLE_ONLY or TRACK_TITLE, sets artist and album from the
\* first two segments of the folder below the root, album alone from a single
\* segment, nothing for the root itself or a folder outside it, and leaves a
\* field that already holds a non-empty value as it is; a field holding None
\* or the empty string is filled.
C10_FolderInference == [][FolderInference(HoldsNonEmptyValue)]_vars

\* C10 witness: TITLE_ONLY is primary; a track two folders below the root
\* kept the artist an earlier analysis gave it and got the album from its
\* folder, a track one folder below got the album only, a track in the root
\* nothing
C10_Witness ==
  /\ Analyzed
  /\ primary_filename_pattern(Result) # <<>>
  /\ primary_filename_pattern(Result)[1].pattern_type = TITLE_ONLY
  /\ \E i \in 1..Len(tracks) :
        /\ tracks[i].folder = <<"m", "A", "X">>
        /\ tracks[i].inferred_artist = "c"
        /\ tracks[i].inferred_album = "X"
  /\ \E i \in 1..Len(tracks) :
        /\ tracks[i].folder = <<"m", "A">>
        /\ tracks[i].inferred_artist = None
        /\ tracks[i].inferred_album = "A"
  /\ \E i \in 1..Len(tracks) :
        /\ tracks[i].folder = Root
        /\ tracks[i].inferred_artist = None
        /\ tracks[i].inferred_album = None

-----------------------------------------------------------------------------
(* Frame and idempotence of analyze *)

\* path, filename and tag fields of two tracks agree
SameButInferred(old, new) ==
  /\ new.folder = old.folder
  /\ new.name = old.name
  /\ new.title = old.title
  /\ new.artist = old.artist
  /\ new.album = old.album

\* C11: analyze changes nothing in the library except the inferred fields of
\* its tracks: the track sequence and its order, root_path and every track's
\* path, filename and tag fields stay; a track the primary type's regexes do
\* not match is not changed at all, and with no primary filename pattern no
\* track is, whatever the folder and special passes found.
C11_Frame ==
  [][last_call' = "analyze" =>
       /\ root_path' = root_path
       /\ Len(tracks') = Len(tracks)
       /\ \A i \in 1..Len(tracks) : SameButInferred(tracks[i], tracks'[i])
       /\ primary_filename_pattern(analysis'[1]) = <<>> => tracks' = tracks
       /\ primary_filename_pattern(analysis'[1]) # <<>> =>
            \A i \in 1..Len(tracks) :
               FirstGroups(primary_filename_pattern(analysis'[1])[1].pattern_type,
                           StemOf(tracks[i])) = <<>>
                 => tracks'[i] = tracks[i]]_vars

\* C11 witness: analyze gave the tagged track inferred fields that differ
\* from its tags, which it kept, beside a track no regex matches that has
\* none, while a folder pattern was found
C11_Witness ==
  /\ Analyzed
  /\ Result.folder_patterns # <<>>
  /\ \E i \in 1..Len(tracks) :
        /\ tracks[i].title = "T" /\ tracks[i].artist = "R" /\ tracks[i].album = "L"
        /\ tracks[i].inferred_artist = "c"
        /\ tracks[i].inferred_title = "d"
  /\ \E i \in 1..Len(tracks) :
        /\ StemOf(tracks[i]) = "a\nb"
        /\ tracks[i] = Mp3(<<"m", "A", "X">>, "a\nb")

\* the four inferred fields of two tracks agree
SameInferred(old, new) ==
  /\ new.inferred_title = old.inferred_title
  /\ new.inferred_artist = old.inferred_artist
  /\ new.inferred_album = old.inferred_album
  /\ new.inferred_track_number = old.inferred_track_number

\* C12: inference is idempotent: an analyze that follows an analyze, with no
\* track added in between, leaves the four inferred fields of every track
\* as the first run left them.
C12_Idempotent ==
  [][(last_call = "analyze" /\ last_call' = "analyze") =>
       /\ Len(tracks') = Len(tracks)
       /\ \A i \in 1..Len(tracks) : SameInferred(tracks[i], tracks'[i])]_vars

\* C12 witness: an analysis with TITLE_ONLY as primary pattern filled artist
\* and album of a track from its folder, replacing an empty artist an
\* earlier analysis had left, and one more run would change no track
C12_Witness ==
  /\ Analyzed
  /\ primary_filename_pattern(Result) # <<>>
  /\ primary_filename_pattern(Result)[1].pattern_type = TITLE_ONLY
  /\ \E i \in 1..Len(tracks) :
        /\ StemOf(tracks[i]) = "1- -b"
        /\ tracks[i].inferred_title = "1- -b"
        /\ tracks[i].inferred_artist = "A"
        /\ tracks[i].inferred_album = "X"
  /\ apply_inferences(tracks, root_path, AnalysisOf(tracks, root_path)) = tracks

-----------------------------------------------------------------------------
(* Groupings *)

\* the positions grouped under the entries of g, one entry after the other
RECURSIVE GroupedPositions(_, _)
GroupedPositions(g, j) ==
  IF j > Len(g) THEN <<>> ELSE g[j].tracks \o GroupedPositions(g, j + 1)

\* g groups exactly the tracks now in the library, each once and in
\* insertion order, every track under the key KeyOf gives it
GroupsCurrentTracks(g, KeyOf(_)) ==
  /\ \A j, k \in 1..Len(g) : g[j].key = g[k].key => j = k
  /\ \A j \in 1..Len(g) :
        /\ g[j].tracks # <<>>
        /\ \A n \in 1..Len(g[j].tracks) :
              /\ g[j].tracks[n] \in 1..Len(tracks)
              /\ KeyOf(tracks[g[j].tracks[n]]) = g[j].key
              /\ n > 1 => g[j].tracks[n - 1] < g[j].tracks[n]
  /\ Len(GroupedPositions(g, 1)) = Len(tracks)
  /\ \A i \in 1..Len(tracks) :
        \E n \in 1..Len(tracks) : GroupedPositions(g, 1)[n] = i

ArtistKey(track) == display_artist(track)

AlbumKey(track) == display_artist(track) \o "|" \o display_album(track)

\* C13: after any sequence of add_track, get_artists and get_albums calls,
\* the grouping get_artists (get_albums) returns is never one computed before
\* the last add_track: it holds exactly the tracks now in the library, each
\* once, in insertion order, under the key display_artist (respectively
\* "display_artist|display_album").
C13_GroupingsCurrent ==
  /\ last_call = "get_artists" =>
       returned # <<>> /\ GroupsCurrentTracks(returned[1], ArtistKey)
  /\ last_call = "get_albums" =>
       returned # <<>> /\ GroupsCurrentTracks(returned[1], AlbumKey)

\* C13 witness: get_albums returns three tracks under two keys, two tracks
\* with artist and album from different fields under one key, while the
\* artist grouping is not cached: a track was added since it was last asked
C13_Witness ==
  /\ last_call = "get_albums"
  /\ Len(tracks) = 3
  /\ _artists = <<>>
  /\ returned # <<>>
  /\ Len(returned[1]) = 2
  /\ \E j \in 1..2 :
        /\ returned[1][j].key = "R|L"
        /\ Len(returned[1][j].tracks) = 2
        /\ tracks[returned[1][j].tracks[1]].artist = "R"
        /\ tracks[returned[1][j].tracks[2]].inferred_artist = "R"

-----------------------------------------------------------------------------
(* Confidence and fuzzy similarity *)

\* weight x similarity of one field, and an empty list for a field left out
FieldScore(included, result_field, search_field, weight) ==
  IF included THEN <<Weighted(fuzzy_match(result_field, search_field), weight)>>
  ELSE <<>>

FieldWeight(included, weight) == IF included THEN weight ELSE 0

\* the sum of weight x similarity over the included fields, divided by the
\* sum of the weights of the included fields
WeightedAverage(a) ==
  LET total == SumScores(FieldScore(TRUE, a[1], a[4], WEIGHTS[1])
                         \o FieldScore(Truthy(a[5]), a[2], a[5], WEIGHTS[2])
                         \o FieldScore(Truthy(a[6]), a[3], a[6], WEIGHTS[3]))
  IN  Frac(total.num,
           total.den * (WEIGHTS[1] + FieldWeight(Truthy(a[5]), WEIGHTS[2])
                                   + FieldWeight(Truthy(a[6]), WEIGHTS[3])))

\* the candidate matches every supplied search field exactly
PerfectMatch(a) ==
  /\ a[1] = a[4] /\ a[1] # ""
  /\ Truthy(a[5]) => a[2] = a[5]
  /\ Truthy(a[6]) => a[3] = a[6]

\* C14: _calculate_confidence is the sum of weight x similarity over the
\* included fields divided by the sum of the weights of exactly the included
\* fields (title always, artist and album only if supplied), in each of the
\* four combinations of supplied fields; a candidate that matches every
\* supplied field perfectly gets confidence 1.0.
C14_WeightedAverage ==
  last_call = "_calculate_confidence" =>
    /\ EqConf(result[1], WeightedAverage(args))
    /\ PerfectMatch(args) => EqConf(result[1], Frac(1, 1))

\* C15: _fuzzy_match(a, b) = _fuzzy_match(b, a) for every pair of strings, and
\* non-empty strings that are equal after case-folding score 1.0.
C15_Symmetric ==
  last_call = "_fuzzy_match" =>
    /\ EqConf(result[1], fuzzy_match(args[2], args[1]))
    /\ (args[1] # "" /\ lower(args[1]) = lower(args[2]))
          => EqConf(result[1], Frac(1, 1))

\* C16: _fuzzy_match is 0.0 whenever either argument is empty, also when it
\* is empty only after trimming: two whitespace-only strings score 0.0.
C16_EmptyIsZero ==
  (last_call = "_fuzzy_match" /\ (strip(args[1]) = "" \/ strip(args[2]) = ""))
    => EqConf(result[1], Frac(0, 1))

\* the step sends a remote query
Queries == queries' = queries + 1

\* what a wait entered now has to sleep to keep the limiter's interval
MustSleep ==
  Max({0, rate_limiter.min_interval - (now - rate_limiter.last_call)})

\* C17: on a client built for a rate, min_interval is 1/rate and stays so;
\* every remote query, failing ones included, comes with exactly one wait;
\* the first wait does not sleep, a later one sleeps exactly
\* max(0, min_interval - time since the recorded last_call), and the
\* last_call it records is at least min_interval after the one before.
C17_RateLimited ==
  /\ rate_limiter.min_interval * args[1] = TicksPerSecond
  /\ [][/\ rate_limiter'.min_interval = rate_limiter.min_interval
        /\ waits' - waits = queries' - queries
        /\ Queries =>
             /\ waits' = waits + 1
             /\ IF rate_limiter.last_call = NoneInt
                THEN slept' = <<>>
                ELSE /\ slept' = IF MustSleep = 0 THEN <<>> ELSE <<MustSleep>>
                     /\ rate_limiter'.last_call - rate_limiter.last_call
                          >= rate_limiter.min_interval]_vars

\* a later query that had to sleep, and that the remote catalog failed
C17_Witness ==
  /\ queries >= 2
  /\ slept # <<>>
  /\ args.response.kind = "WebServiceError"
  /\ result.returned = <<>>

\* the state was produced by a search; args holds what was searched for and
\* what the remote catalog answered, result what the call did
Searched == last_call \in {"search_track", "lookup_track"}

\* C18: search_track and lookup_track never raise: when the remote catalog
\* fails, or the answer cannot be parsed, the call returns an empty list.
C18_NeverRaises ==
  Searched =>
    /\ result.exc = ""
    /\ args.response.kind = "WebServiceError" => result.returned = <<>>

\* the candidate records of the answer
Answered ==
  IF args.response.kind = "WebServiceError" THEN <<>>
  ELSE Get(args.response.result, "recording-list", List(<<>>)).value.q

\* the try block of _parse_recording on the k-th candidate
OutcomeOf(k) == ParseOutcome(Answered[k], args.title, args.artist, args.album)

\* the matches of the candidates that can be parsed, from position k on
RECURSIVE ParsedFrom(_)
ParsedFrom(k) ==
  IF k > Len(Answered) THEN <<>>
  ELSE Bind(OutcomeOf(k), LAMBDA outcome :
         (IF outcome.exc = "" THEN outcome.match ELSE <<>>) \o ParsedFrom(k + 1))

\* the release date (the track number) of a candidate of the Recording form
DateOf(recording) ==
  GetItem(GetItem(recording, "release-list").q[1], "date")

NumberOf(recording) ==
  GetItem(GetItem(GetItem(GetItem(recording, "release-list").q[1],
                          "medium-list").q[1], "track-list").q[1], "number")

\* a candidate of the Recording form with a named artist whose date and
\* track number are strings that are not numbers
NotNumeric(recording) ==
  /\ "release-list" \in KeysOf(recording)
  /\ GetItem(GetItem(recording, "artist-credit").q[1], "artist").t = "dict"
  /\ DateOf(recording).t = "str" /\ NumberOf(recording).t = "str"
  /\ IntOfStr(SubSeq(DateOf(recording).s, 1, 4)).exc = "ValueError"
  /\ IntOfStr(NumberOf(recording).s).exc = "ValueError"

\* the match of such a candidate: no year, no track number, the other
\* fields as the candidate gives them
WithoutNumbers(recording) ==
  LET title == GetItem(recording, "title")
      artist == GetItem(GetItem(recording, "artist-credit").q[1], "artist")
      release == GetItem(recording, "release-list").q[1]
  IN  MetadataMatch(title, GetItem(artist, "name"), GetItem(release, "title"),
                    NoInt, NoInt,
                    calculate_confidence(title.s, GetItem(artist, "name").s,
                                         GetItem(release, "title").s,
                                         args.title, args.artist, args.album),
                    GetItem(recording, "id"), GetItem(release, "id"),
                    GetItem(artist, "id"))

\* C19: a candidate that cannot be parsed is skipped and the others are
\* still returned; a candidate whose date and track number are not numbers
\* is returned without year and track number, its other fields and its
\* confidence intact.
C19_MalformedSkipped ==
  (Searched /\ args.response.kind = "result") =>
    /\ result.exc = ""
    /\ result.returned = SortedDesc(ParsedFrom(1))
    /\ \A k \in 1..Len(Answered) :
          NotNumeric(Answered[k]) =>
            \E j \in 1..Len(result.returned) :
               result.returned[j] = WithoutNumbers(Answered[k])

\* C20: the list search_track returns is sorted by non-increasing
\* confidence and has at most limit entries.
C20_SortedAndLimited ==
  (Searched /\ result.exc = "") =>
    /\ NonIncreasing(result.returned)
    /\ Len(result.returned) <= args.limit

\* the step is a lookup_track call, on the only track of the library
LooksUp == last_call' = "lookup_track"

LookedUpTrack == tracks[1]

\* a field is present when it is not None
Present(x) == x # None

\* C21 as stated: lookup_track makes exactly one search_track call, with
\* title = inferred_title if present, else the tag title, else the path
\* stem; artist = inferred_artist if present, else the tag artist, else
\* none; album = the tag album if present, else inferred_album, else none;
\* and the given limit; the track is not modified.
C21_AsStated ==
  [][LooksUp =>
       LET track == LookedUpTrack
       IN  /\ queries' = queries + 1
           /\ tracks' = tracks
           /\ args'.title = IF Present(track.inferred_title) THEN track.inferred_title
                            ELSE IF Present(track.title) THEN track.title
                            ELSE StemOf(track)
           /\ args'.artist = IF Present(track.inferred_artist) THEN track.inferred_artist
                             ELSE IF Present(track.artist) THEN track.artist
                             ELSE None
           /\ args'.album = IF Present(track.album) THEN track.album
                            ELSE IF Present(track.inferred_album) THEN track.inferred_album
                            ELSE None]_vars

\* C21: lookup_track makes exactly one search_track call, with
\* title = inferred_title if it is not empty, else the tag title if it is
\* not empty, else the path stem; artist = inferred_artist if it is not
\* empty, else the tag artist as it is (None and "" included); album = the
\* tag album if it is not empty, else inferred_album as it is; and the
\* given limit; the track is not modified.
C21_LookupArguments ==
  [][LooksUp =>
       LET track == LookedUpTrack
       IN  /\ queries' = queries + 1
           /\ waits' = waits + 1
           /\ tracks' = tracks
           /\ args'.title = IF Truthy(track.inferred_title) THEN track.inferred_title
                            ELSE IF Truthy(track.title) THEN track.title
                            ELSE StemOf(track)
           /\ args'.artist = IF Truthy(track.inferred_artist) THEN track.inferred_artist
                             ELSE track.artist
           /\ args'.album = IF Truthy(track.album) THEN track.album
                            ELSE track.inferred_album
           /\ args'.limit \in 1..MaxLimit]_vars

\* a lookup of a track with a camel-case tag artist, a tag title that looks
\* like a file name and an empty inferred title
C21_Witness ==
  /\ last_call = "lookup_track"
  /\ LookedUpTrack.artist = "aB" /\ LookedUpTrack.inferred_artist = None
  /\ LookedUpTrack.title = "a(b" /\ LookedUpTrack.inferred_title = ""
  /\ args.title = "a(b" /\ args.artist = "aB" /\ args.album = "c"

\* the tracks whose stem begins with 1-3 digits, optional white space and a
\* separator, and the tracks of a folder whose name has a 4-digit year in
\* parentheses or brackets
NumberedTracks == {i \in 1..Len(tracks) : NumberedPrefix(Stems[i])}

YearTracks ==
  {i \in 1..Len(tracks) : FOLDER_YEAR_PATTERN(FolderName(tracks[i].folder))}

SpecialAs(pt) ==
  {k \in 1..Len(Result.special_patterns) :
     Result.special_patterns[k].pattern_type = pt}

\* pattern type pt is emitted iff count/N >= gate, once, with confidence
\* count/N
GatedAt(pt, count, gate) ==
  LET N == Len(tracks)
  IN  /\ (SpecialAs(pt) # {}) <=> Geq(Frac(count, N), gate)
      /\ Cardinality(SpecialAs(pt)) <= 1
      /\ \A k \in SpecialAs(pt) :
            /\ Result.special_patterns[k].confidence = Frac(count, N)
            /\ Result.special_patterns[k].matching_tracks = count
            /\ Result.special_patterns[k].total_tracks = N

\* C22: after analyze on a non-empty library NUMBERED_PREFIX is emitted iff
\* the share of tracks with a numbered stem is >= 0.25 and YEAR_IN_FOLDER iff
\* the share of tracks in a folder with a bracketed 4-digit year is >= 0.1,
\* each with that share as confidence, each gate whatever the other and the
\* filename and folder patterns are; a library whose stems are all numbered
\* gets NUMBERED_PREFIX with confidence > 0.9.
C22_SpecialGates ==
  (Analyzed /\ tracks # <<>>) =>
     /\ GatedAt(NUMBERED_PREFIX, Cardinality(NumberedTracks), Frac(1, 4))
     /\ GatedAt(YEAR_IN_FOLDER, Cardinality(YearTracks), MinConfidence)
     /\ (Cardinality(NumberedTracks) = Len(tracks)) =>
           \E k \in SpecialAs(NUMBERED_PREFIX) :
              Gt(Result.special_patterns[k].confidence, Frac(9, 10))

\* an analyzed library of four tracks, one numbered, in which NUMBERED_PREFIX
\* is emitted with confidence 1/4 and YEAR_IN_FOLDER, at 0 of 4, is not
C22_Witness ==
  /\ Analyzed /\ Len(tracks) = 4
  /\ Cardinality(NumberedTracks) = 1 /\ YearTracks = {}
  /\ SpecialAs(NUMBERED_PREFIX) # {} /\ SpecialAs(YEAR_IN_FOLDER) = {}

\* the distinct known artists of the tracks of a folder
KnownArtists(folder) ==
  {Or(tracks[i].artist, tracks[i].inferred_artist) :
     i \in {j \in FolderTracks(tracks, folder) :
              Truthy(tracks[j].artist) \/ Truthy(tracks[j].inferred_artist)}}

\* a folder whose name has a variety indicator, and a folder of at least 5
\* tracks whose distinct known artists number at least 70% of them
ByName(folder) == \E ind \in va_indicators : Contains(lower(FolderName(folder)), ind)

ByDiversity(folder) ==
  /\ Cardinality(FolderTracks(tracks, folder)) >= 5
  /\ 10 * Cardinality(KnownArtists(folder)) >= 7 * Cardinality(FolderTracks(tracks, folder))

\* the tracks of the compilation candidates, each track once
CompilationTracks ==
  {i \in 1..Len(tracks) : ByName(tracks[i].folder) \/ ByDiversity(tracks[i].folder)}

CompilationIn(patterns) ==
  {k \in 1..Len(patterns) : patterns[k].pattern_type = COMPILATION}

\* C23: analyze on a non-empty library takes as compilation candidates the
\* folders with a variety indicator in the name and the folders of >= 5
\* tracks whose distinct known artists are >= 70% of the tracks, counts the
\* tracks of each candidate once, and emits COMPILATION iff their share of
\* all tracks is >= 0.05, with matching_tracks <= total_tracks and the share,
\* within [0,1], as confidence.
C23_Compilation ==
  [][(last_call' = "analyze" /\ tracks # <<>>) =>
       LET special == analysis'[1].special_patterns
           comp_tracks == Cardinality(CompilationTracks)
           N == Len(tracks)
       IN  /\ (CompilationIn(special) # {}) <=> (20 * comp_tracks >= N)
           /\ Cardinality(CompilationIn(special)) <= 1
           /\ \A k \in CompilationIn(special) :
                 /\ special[k].matching_tracks = comp_tracks
                 /\ special[k].total_tracks = N
                 /\ special[k].matching_tracks <= special[k].total_tracks
                 /\ special[k].confidence = Frac(comp_tracks, N)
                 /\ Geq(special[k].confidence, Frac(0, 1))
                 /\ Geq(Frac(1, 1), special[k].confidence)]_vars

\* an analyzed library with a folder that is a candidate by its name and by
\* its 5 tracks of 4 tag artists, counted as 5 compilation tracks
C23_Witness ==
  /\ Analyzed /\ Len(tracks) > 5
  /\ \E i \in 1..Len(tracks) :
        /\ ByName(tracks[i].folder)
        /\ Cardinality(FolderTracks(tracks, tracks[i].folder)) = 5
        /\ Cardinality({tracks[j].artist : j \in FolderTracks(tracks, tracks[i].folder)} \ {None, ""}) = 4
  /\ \E k \in CompilationIn(Result.special_patterns) :
        Result.special_patterns[k].matching_tracks = 5

\* the display value the selection rule gives with "present" read as IsSet
Selected(IsSet(_), tag, inferred, fallback) ==
  IF IsSet(tag) THEN tag ELSE IF IsSet(inferred) THEN inferred ELSE fallback

\* the three display values of a track follow the selection rule
DisplaysBy(IsSet(_), track) ==
  /\ display_title(track)
       = Selected(IsSet, track.title, track.inferred_title, track.name)
  /\ display_artist(track)
       = Selected(IsSet, track.artist, track.inferred_artist, "Unknown Artist")
  /\ display_album(track)
       = Selected(IsSet, track.album, track.inferred_album, "Unknown Album")

\* a step leaves the display values of the tracks with a tag field that is
\* set as they were
KeepsDisplay(IsSet(_)) ==
  \A i \in 1..Len(tracks) :
     /\ IsSet(tracks[i].title) => display_title(tracks'[i]) = display_title(tracks[i])
     /\ IsSet(tracks[i].artist) => display_artist(tracks'[i]) = display_artist(tracks[i])
     /\ IsSet(tracks[i].album) => display_album(tracks'[i]) = display_album(tracks[i])

\* C24 as stated: the display title, artist and album of a track are the tag
\* field if present (not None), else the inferred field if present, else the
\* filename, 'Unknown Artist' and 'Unknown Album'; no step changes the
\* display value of a track whose tag field is present.
C24_AsStated ==
  [][/\ \A i \in 1..Len(tracks') : DisplaysBy(Present, tracks'[i])
     /\ KeepsDisplay(Present)]_vars

\* C24: the display title, artist and album of a track are the tag field if
\* it is not empty (neither None nor ""), else the inferred field if it is
\* not empty, else the filename, 'Unknown Artist' and 'Unknown Album'; no
\* step, analyze setting inferred fields included, changes the display value
\* of a track whose tag field is not empty.
C24_DisplayValues ==
  [][/\ \A i \in 1..Len(tracks') : DisplaysBy(Truthy, tracks'[i])
     /\ KeepsDisplay(Truthy)]_vars

\* analyses have set the inferred title and artist of a tagged track, which
\* still displays its tags, and of an untagged track, which displays them
C24_Witness ==
  /\ Analyzed
  /\ \E i, j \in 1..Len(tracks) :
        /\ tracks[i].title = "T" /\ tracks[i].inferred_title = "d"
        /\ tracks[i].inferred_artist = "c"
        /\ display_title(tracks[i]) = "T" /\ display_artist(tracks[i]) = "R"
        /\ display_album(tracks[i]) = "L"
        /\ tracks[j].title = None /\ tracks[j].inferred_title = "e"
        /\ display_title(tracks[j]) = "e" /\ display_artist(tracks[j]) = "c"
        /\ display_album(tracks[j]) = "d"

\* C25: an analyze that follows an analyze, the library's tracks not having
\* been added to in between, returns the same filename, folder and special
\* pattern lists as the first, although the first set inferred fields.
C25_SecondAnalysisSame ==
  [][(last_call = "analyze" /\ last_call' = "analyze") =>
       /\ analysis'[1].filename_patterns = analysis[1].filename_patterns
       /\ analysis'[1].folder_patterns = analysis[1].folder_patterns
       /\ analysis'[1].special_patterns = analysis[1].special_patterns]_vars

\* the time at which the last wait() call of a thread returned
ReturnedAt(th) == threads[th].returned

\* C26: when two threads call wait() on one shared RateLimiter, the times at
\* which their calls return differ by at least min_interval, however the
\* statements of the two calls interleave.
C26_Serialized ==
  \A a, b \in ThreadIds :
     (a # b /\ ReturnedAt(a) # NoneInt /\ ReturnedAt(b) # NoneInt /\ ReturnedAt(a) >= ReturnedAt(b))
       => ReturnedAt(a) - ReturnedAt(b) >= rate_limiter.min_interval

\* the grouping the last call returned
Grouping == returned[1]

\* C27: after any interleaving of add_track, analyze, get_artists and
\* get_albums, the grouping get_artists (get_albums) returns holds every
\* track of the library under its current display_artist (respectively
\* "display_artist|display_album"), also when analyze has set inferred_artist
\* or inferred_album since the grouping was first computed.
C27_GroupingsFollowAnalysis ==
  /\ (last_call = "get_artists" /\ returned # <<>>) =>
        GroupsCurrentTracks(Grouping, ArtistKey)
  /\ (last_call = "get_albums" /\ returned # <<>>) =>
        GroupsCurrentTracks(Grouping, AlbumKey)

\* the library's tracks as a freshly built library holds them, all inferred
\* fields empty, and as a single analyze leaves them there
FreshTracks ==
  [i \in 1..Len(tracks) |->
     [tracks[i] EXCEPT !.inferred_artist = None, !.inferred_album = None,
                       !.inferred_title = None, !.inferred_track_number = NoneInt]]

AnalyzedFresh ==
  apply_inferences(FreshTracks, root_path, AnalysisOf(FreshTracks, root_path))

\* C28: after any sequence of add_track and analyze calls that ends with
\* analyze, every track's inferred fields are those a single analyze would
\* leave on a freshly built library of the same tracks; no inferred value of
\* an earlier run survives.
C28_InferredAsFresh ==
  (Analyzed /\ tracks # <<>>) => tracks = AnalyzedFresh

\* the place of a filename pattern type in the order of specificity
Specificity(pt) ==
  CHOOSE k \in 1..5 :
     <<TRACK_ARTIST_TITLE, TRACK_TITLE, ARTIST_ALBUM_TITLE, ARTIST_TITLE, TITLE_ONLY>>[k] = pt

\* the emitted filename patterns of the highest confidence
TopPatterns ==
  {k \in 1..Len(Result.filename_patterns) :
     \A j \in 1..Len(Result.filename_patterns) :
        Geq(Result.filename_patterns[k].confidence, Result.filename_patterns[j].confidence)}

\* C29: after analyze, the primary filename pattern is the first element of
\* filename_patterns, and among the types that tie for the highest confidence
\* it is the one that comes first in the order TRACK_ARTIST_TITLE,
\* TRACK_TITLE, ARTIST_ALBUM_TITLE, ARTIST_TITLE, TITLE_ONLY; it is None only
\* for an empty list.
C29_PrimaryIsFirst ==
  Analyzed =>
     IF Result.filename_patterns = <<>> THEN primary_filename_pattern(Result) = <<>>
     ELSE /\ primary_filename_pattern(Result) = <<Result.filename_patterns[1]>>
          /\ \A k \in TopPatterns :
                Specificity(primary_filename_pattern(Result)[1].pattern_type)
                  <= Specificity(Result.filename_patterns[k].pattern_type)

\* three tracks of three types tie at 1/3 and the primary is TRACK_TITLE,
\* the most specific of them
C29_Witness ==
  /\ Analyzed /\ Len(tracks) = 3
  /\ Cardinality(TopPatterns) = 3
  /\ {Result.filename_patterns[k].pattern_type : k \in TopPatterns}
       = {TITLE_ONLY, TRACK_TITLE, ARTIST_TITLE}
  /\ tracks[1].name = "a.mp3"
  /\ primary_filename_pattern(Result)[1].pattern_type = TRACK_TITLE

\* every stem of the library matches at least one filename pattern type
EveryStemMatches ==
  \A i \in 1..Len(tracks) :
     \E k \in 1..Len(FilenameTypes) :
        matches_filename_pattern(Stems[i], FilenameTypes[k])

\* after analyze at least one filename pattern is emitted, the primary
\* filename pattern is not None and its confidence is at least 1/5
SomePatternEmitted ==
  /\ Result.filename_patterns # <<>>
  /\ primary_filename_pattern(Result) # <<>>
  /\ Geq(primary_filename_pattern(Result)[1].confidence, Frac(1, 5))

\* C30 as stated: any non-empty stem matches TITLE_ONLY, and after analyze on
\* a non-empty library in which each stem matches at least one filename
\* pattern type some filename pattern is emitted, the primary is not None and
\* has confidence >= 1/5.
C30_AsStated ==
  /\ \A i \in 1..Len(tracks) :
        Stems[i] # "" => matches_filename_pattern(Stems[i], TITLE_ONLY)
  /\ (Analyzed /\ tracks # <<>> /\ EveryStemMatches) => SomePatternEmitted

\* C30: after analyze on a non-empty library in which each stem matches at
\* least one filename pattern type (any non-empty stem that holds no line
\* break matches TITLE_ONLY) some filename pattern is emitted, the primary
\* filename pattern is not None and its confidence is at least 1/5.
C30_NeverAllSuppressed ==
  /\ \A i \in 1..Len(tracks) :
        (Stems[i] # "" /\ ~Contains(Stems[i], "\n"))
          => matches_filename_pattern(Stems[i], TITLE_ONLY)
  /\ (Analyzed /\ tracks # <<>> /\ EveryStemMatches) => SomePatternEmitted

\* five tracks, one of each type: every type is emitted with confidence 1/5,
\* the least the primary can have
C30_Witness ==
  /\ Analyzed /\ Len(tracks) = 5 /\ EveryStemMatches
  /\ Len(Result.filename_patterns) = 5
  /\ primary_filename_pattern(Result)[1].confidence = Frac(1, 5)
====
